---- MODULE Spec2Model ----
(***************************************************************************)
(* Transistor-row geometry synthesis of the cds_ff_mpt technology          *)
(* (templates_cds_ff_mpt/mos/tech.py, class MOSTechCDSFFMPT).              *)
(*                                                                         *)
(* Every operation of the class is a function of its arguments and of the  *)
(* technology constants (mos_config, the wire tables and the line-end and  *)
(* minimum-length rules of tech_info).  The constants are fixed when the   *)
(* object is built and never written afterwards: `tech' is chosen in the   *)
(* initial state and left unchanged.  `call' records the invocation being  *)
(* served: which operation ran, its arguments, and what it returned or     *)
(* raised; it is NoCall between invocations.                               *)
(*                                                                         *)
(* All coordinates are integers.  Python's // and divmod round towards     *)
(* minus infinity, as \div and % do here for a positive divisor.           *)
(***************************************************************************)
EXTENDS Integers, Sequences, FiniteSets, TLC

VARIABLES tech, call

vars == <<tech, call>>

(***************************************************************************)
(* Bounds of the model.                                                    *)
(***************************************************************************)
MaxFinP == 4
MaxFinH == 3
MaxY == 12
MaxIdx == 3
MaxWidth == 3

(***************************************************************************)
(* Arithmetic helpers.                                                     *)
(***************************************************************************)
\* -(-a // b), the ceiling division idiom of the source
CeilDiv(a, b) == -((-a) \div b)

Max2(a, b) == IF a >= b THEN a ELSE b

Min2(a, b) == IF a <= b THEN a ELSE b

(***************************************************************************)
(* Technology constants.  The values are those of a scaled-down process;   *)
(* each specification below varies the constants its operations read.      *)
(***************************************************************************)
NominalTech ==
  [ fin_p |-> 4, fin_h |-> 2, od_fin_exty_constants |-> <<0, 0, 0>>,
    cpo_h |-> 2, cpo_spy |-> 3, cpo_od_spy |-> 1,
    mp_cpo_spy |-> 1, mp_h |-> 2, mp_spy |-> 2, mp_po_extx |-> 1,
    md_spy |-> 2, md_h_min |-> 4, md_od_exty |-> 1, md_w |-> 2,
    od_spy |-> 2, imp_od_encx |-> 1, sd_pitch |-> 6, lch |-> 2,
    od_po_extx_constants |-> <<1, 1, 0>>,
    g_wire_info |->
      [bot_layer |-> 1,
       info_list |-> << [w |-> 2, is_horiz |-> FALSE,
                         via_w |-> 2, via_h |-> 2, via_sp |-> 2,
                         via_bot_enc |-> 1, via_top_enc |-> 1] >>],
    d_wire_info |->
      [bot_layer |-> 1,
       info_list |-> << [w |-> 2, is_horiz |-> FALSE,
                         via_w |-> 2, via_h |-> 2, via_sp |-> 2,
                         via_bot_enc |-> 1, via_top_enc |-> 1] >>],
    g_len_min |-> 4, g_sp_le |-> 2, d_len_min |-> 4, d_sp_le |-> 2 ]

FinPSet == 2..MaxFinP

FinHSet == 1..MaxFinH

OdFinExtySet == {<<0, 0, 0>>, <<1, 0, 0>>, <<0, 1, 0>>}

NoCall == [op |-> "none"]

(***************************************************************************)
(* Grid quantizer.                                                         *)
(***************************************************************************)
fin_h(t) == t.fin_h

od_fin_exty(t) ==
  LET val == t.od_fin_exty_constants
  IN  val[1] + val[2] * fin_h(t) + val[3] * t.fin_p

get_od_height_PitchPerFin(t, w) == t.fin_p * w + fin_h(t)

get_od_height(t, w) == t.fin_p * (w - 1) + fin_h(t)

\* round_up is None, True or False: "None" is the exact mode
RoundModes == {"None", "True", "False"}

get_fin_idx_NoRaise(t, y, is_top_edge, round_up) ==
  LET fin_p == t.fin_p
      fin_p2 == fin_p \div 2
      fin_h2 == fin_h(t) \div 2
      delta0 == fin_h2 + od_fin_exty(t)
      delta == IF ~is_top_edge THEN -delta0 ELSE delta0
      quantity == y - delta - fin_p2
      q == quantity \div fin_p
      r == quantity % fin_p
      not_on_grid == (r # 0)
  IN  [raised |-> "none",
       val |-> q + (IF not_on_grid /\ round_up = "True" THEN 1 ELSE 0)]

get_fin_idx(t, y, is_top_edge, round_up) ==
  LET fin_p == t.fin_p
      fin_p2 == fin_p \div 2
      fin_h2 == fin_h(t) \div 2
      delta0 == fin_h2 + od_fin_exty(t)
      delta == IF ~is_top_edge THEN -delta0 ELSE delta0
      quantity == y - delta - fin_p2
      q == quantity \div fin_p
      r == quantity % fin_p
      not_on_grid == (r # 0)
  IN  IF round_up = "None" /\ not_on_grid
      THEN [raised |-> "ValueError", val |-> 0]
      ELSE [raised |-> "none",
            val |-> q + (IF not_on_grid /\ round_up = "True" THEN 1 ELSE 0)]

get_od_edge_NoHalfPitch(t, fin_idx, is_top_edge) ==
  LET fin_p == t.fin_p
      delta0 == (fin_h(t) \div 2) + od_fin_exty(t)
      delta == IF ~is_top_edge THEN -delta0 ELSE delta0
  IN  fin_idx * fin_p + delta

get_od_edge(t, fin_idx, is_top_edge) ==
  LET fin_p == t.fin_p
      delta0 == (fin_h(t) \div 2) + od_fin_exty(t)
      delta == IF ~is_top_edge THEN -delta0 ELSE delta0
  IN  fin_idx * fin_p + (fin_p \div 2) + delta

snap_od_edge_RoundDown(t, y, is_top_edge, round_up) ==
  LET fin_idx == get_fin_idx(t, y, is_top_edge, "False")
  IN  get_od_edge(t, fin_idx.val, is_top_edge)

snap_od_edge(t, y, is_top_edge, round_up) ==
  LET fin_idx == get_fin_idx(t, y, is_top_edge, IF round_up THEN "True" ELSE "False")
  IN  get_od_edge(t, fin_idx.val, is_top_edge)

(***************************************************************************)
(* Grid quantizer: initial states and operations.                          *)
(***************************************************************************)
TechGrid ==
  { [NominalTech EXCEPT !.fin_p = p, !.fin_h = h, !.od_fin_exty_constants = c] :
      p \in FinPSet, h \in FinHSet, c \in OdFinExtySet }

InitGrid == tech \in TechGrid /\ call = NoCall

\* a caller asks for the fin index of an OD edge coordinate
GetFinIdx ==
  \E y \in -MaxY..MaxY, is_top_edge \in BOOLEAN, round_up \in RoundModes :
    /\ call = NoCall
    /\ call' = [op |-> "get_fin_idx", y |-> y, is_top_edge |-> is_top_edge,
                round_up |-> round_up,
                ret |-> get_fin_idx(tech, y, is_top_edge, round_up)]
    /\ UNCHANGED tech

\* a caller asks for the OD edge of a fin index
GetOdEdge ==
  \E fin_idx \in -MaxIdx..MaxIdx, is_top_edge \in BOOLEAN :
    /\ call = NoCall
    /\ call' = [op |-> "get_od_edge", fin_idx |-> fin_idx,
                is_top_edge |-> is_top_edge,
                ret |-> get_od_edge(tech, fin_idx, is_top_edge)]
    /\ UNCHANGED tech

\* the edge of a fin index is handed back to get_fin_idx in exact mode
RoundTrip ==
  \E fin_idx \in -MaxIdx..MaxIdx, is_top_edge \in BOOLEAN :
    LET y == get_od_edge(tech, fin_idx, is_top_edge)
    IN  /\ call = NoCall
        /\ call' = [op |-> "round_trip", fin_idx |-> fin_idx,
                    is_top_edge |-> is_top_edge, y |-> y,
                    ret |-> get_fin_idx(tech, y, is_top_edge, "None")]
        /\ UNCHANGED tech

SnapOdEdge ==
  \E y \in -MaxY..MaxY, is_top_edge \in BOOLEAN, round_up \in BOOLEAN :
    /\ call = NoCall
    /\ call' = [op |-> "snap_od_edge", y |-> y, is_top_edge |-> is_top_edge,
                round_up |-> round_up,
                ret |-> snap_od_edge(tech, y, is_top_edge, round_up)]
    /\ UNCHANGED tech

\* the caller takes the result; the object is ready for the next invocation
Return ==
  /\ call # NoCall
  /\ call' = NoCall
  /\ UNCHANGED tech

NextGrid == GetFinIdx \/ GetOdEdge \/ RoundTrip \/ SnapOdEdge \/ Return

SpecGrid == InitGrid /\ [][NextGrid]_vars

(***************************************************************************)
(* C1: grid round trip.  For every fin index i, negative ones included,    *)
(* and both edge kinds, get_fin_idx(get_od_edge(i, e), e) in exact mode    *)
(* returns i and does not raise.                                           *)
(***************************************************************************)
GridRoundTrip ==
  call.op = "round_trip" =>
    /\ call.ret.raised = "none"
    /\ call.ret.val = call.fin_idx

GridRoundTripWitness ==
  /\ call.op = "round_trip"
  /\ call.fin_idx < 0
  /\ ~call.is_top_edge
  /\ call.ret.raised = "none"
  /\ tech.fin_p % 2 = 1
  /\ od_fin_exty(tech) > 0

(***************************************************************************)
(* C2: in exact mode get_fin_idx raises for every y that is off the fin    *)
(* grid of the edge kind and returns no rounded index; for every y on the  *)
(* grid it returns the index i with get_od_edge(i) = y.                    *)
(***************************************************************************)
OnFinGrid(t, y, is_top_edge) ==
  \E i \in -(2 * MaxY + 8)..(2 * MaxY + 8) : get_od_edge(t, i, is_top_edge) = y

ExactModeRaisesOffGrid ==
  (call.op = "get_fin_idx" /\ call.round_up = "None") =>
    IF OnFinGrid(tech, call.y, call.is_top_edge)
    THEN /\ call.ret.raised = "none"
         /\ get_od_edge(tech, call.ret.val, call.is_top_edge) = call.y
    ELSE call.ret.raised = "ValueError"

ExactModeRaisesOffGridWitness ==
  /\ call.op = "get_fin_idx"
  /\ call.round_up = "None"
  /\ ~OnFinGrid(tech, call.y, call.is_top_edge)
  /\ call.ret.raised = "ValueError"

(***************************************************************************)
(* Row types (MOSType of the layout framework).  Substrate rows are the    *)
(* taps; the p-well rows are the n-channel row and the p-tap row.          *)
(***************************************************************************)
MOSTypes == {"nch", "pch", "ptap", "ntap"}

is_substrate(mos_type) == mos_type \in {"ptap", "ntap"}

is_pwell(mos_type) == mos_type \in {"nch", "ptap"}

(***************************************************************************)
(* Connection rule resolver.  A wire table holds its bottom layer and one  *)
(* entry per layer; Python indexes the list with conn_layer - bot_layer,   *)
(* a negative index counting from the end.  The minimum length and the     *)
(* line-end spacing of the wire come from tech_info.                       *)
(***************************************************************************)
get_conn_info(t, conn_layer, is_gate) ==
  LET wire_info == IF is_gate THEN t.g_wire_info ELSE t.d_wire_info
      info_list == wire_info.info_list
      idx == conn_layer - wire_info.bot_layer
      n == Len(info_list)
  IN  IF idx >= n \/ idx < -n
      THEN [raised |-> "IndexError"]
      ELSE LET e == info_list[IF idx >= 0 THEN idx + 1 ELSE n + idx + 1]
           IN  [raised |-> "none",
                w |-> e.w,
                len_min |-> IF is_gate THEN t.g_len_min ELSE t.d_len_min,
                sp_le |-> IF is_gate THEN t.g_sp_le ELSE t.d_sp_le,
                orient |-> IF e.is_horiz THEN "x" ELSE "y",
                via_w |-> e.via_w, via_h |-> e.via_h, via_sp |-> e.via_sp,
                via_bot_enc |-> e.via_bot_enc, via_top_enc |-> e.via_top_enc]

(***************************************************************************)
(* Row geometry builder.                                                   *)
(***************************************************************************)
get_conn_yloc_info_GateAtDrain(t, conn_layer, md_yb, md_yt, is_sub) ==
  IF conn_layer # 1 THEN [raised |-> "AssertionError"]
  ELSE
  LET mp_h == t.mp_h
      g_conn_info == get_conn_info(t, conn_layer, TRUE)
      g_m1_h == g_conn_info.len_min
      g_m1_dyt == (g_conn_info.via_w \div 2) + g_conn_info.via_top_enc
      d_conn_info == get_conn_info(t, conn_layer, FALSE)
      d_m1_h == Max2(md_yt - md_yb, d_conn_info.len_min)
      d_m1_yb == (md_yb + md_yt - d_m1_h) \div 2
      d_m1_yt == d_m1_yb + d_m1_h
      g_m1_yt == d_m1_yb
      mp_yc == g_m1_yt - g_m1_dyt
      mp_yt == mp_yc + (mp_h \div 2)
      mp_yb == mp_yt - mp_h
  IN  IF is_sub
      THEN LET g_m1_yb == mp_yc - g_m1_dyt
               m1_y == <<g_m1_yb, d_m1_yt>>
           IN  [raised |-> "none", mp |-> <<mp_yb, mp_yt>>, g |-> m1_y,
                g_m |-> m1_y, ds |-> m1_y, ds_m |-> m1_y, ds_g |-> m1_y,
                sub |-> m1_y]
      ELSE LET cpo_h == t.cpo_h
               g_m1_yb == Min2(g_m1_yt - g_m1_h, mp_yc - g_m1_dyt)
           IN  [raised |-> "none", mp |-> <<mp_yb, mp_yt>>,
                g |-> <<g_m1_yb, g_m1_yt>>,
                g_m |-> <<0, cpo_h \div 2>>,
                ds |-> <<d_m1_yb, d_m1_yt>>,
                ds_m |-> <<md_yt, Max2(md_yt, d_m1_yt)>>,
                ds_g |-> <<d_m1_yb, d_m1_yt>>,
                sub |-> <<mp_yc - g_m1_dyt, d_m1_yt>>]

get_conn_yloc_info(t, conn_layer, md_yb, md_yt, is_sub) ==
  IF conn_layer # 1 THEN [raised |-> "AssertionError"]
  ELSE
  LET mp_h == t.mp_h
      g_conn_info == get_conn_info(t, conn_layer, TRUE)
      g_m1_h == g_conn_info.len_min
      g_m1_sp_le == g_conn_info.sp_le
      g_m1_dyt == (g_conn_info.via_w \div 2) + g_conn_info.via_top_enc
      d_conn_info == get_conn_info(t, conn_layer, FALSE)
      d_m1_h == Max2(md_yt - md_yb, d_conn_info.len_min)
      d_m1_yb == (md_yb + md_yt - d_m1_h) \div 2
      d_m1_yt == d_m1_yb + d_m1_h
      g_m1_yt == d_m1_yb - g_m1_sp_le
      mp_yc == g_m1_yt - g_m1_dyt
      mp_yt == mp_yc + (mp_h \div 2)
      mp_yb == mp_yt - mp_h
  IN  IF is_sub
      THEN LET g_m1_yb == mp_yc - g_m1_dyt
               m1_y == <<g_m1_yb, d_m1_yt>>
           IN  [raised |-> "none", mp |-> <<mp_yb, mp_yt>>, g |-> m1_y,
                g_m |-> m1_y, ds |-> m1_y, ds_m |-> m1_y, ds_g |-> m1_y,
                sub |-> m1_y]
      ELSE LET cpo_h == t.cpo_h
               g_m1_yb == Min2(g_m1_yt - g_m1_h, mp_yc - g_m1_dyt)
           IN  [raised |-> "none", mp |-> <<mp_yb, mp_yt>>,
                g |-> <<g_m1_yb, g_m1_yt>>,
                g_m |-> <<0, cpo_h \div 2>>,
                ds |-> <<d_m1_yb, d_m1_yt>>,
                ds_m |-> <<md_yt, Max2(md_yt, d_m1_yt)>>,
                ds_g |-> <<d_m1_yb, d_m1_yt>>,
                sub |-> <<mp_yc - g_m1_dyt, d_m1_yt>>]

\* the row height: the top boundary marker's centre, up to the next fin pitch
blk_yt_RoundDown(t, od_yt) ==
  ((od_yt + t.cpo_od_spy + (t.cpo_h \div 2)) \div t.fin_p) * t.fin_p

blk_yt_of(t, od_yt) ==
  CeilDiv(od_yt + t.cpo_od_spy + (t.cpo_h \div 2), t.fin_p) * t.fin_p

md_yb_AtOdBottom(od_yb, od_yt, md_h) == od_yb

\* bottom edge of the contact band, centred on the active area
md_yb_of(od_yb, od_yt, md_h) ==
  LET od_yc == (od_yb + od_yt) \div 2
  IN  od_yc - (md_h \div 2)

get_mos_row_info(t, conn_layer, specs) ==
  IF conn_layer # 1 THEN [raised |-> "AssertionError"]
  ELSE
  LET guard_ring == specs.guard_ring
      mp_cpo_spy == t.mp_cpo_spy
      mp_h == t.mp_h
      mp_spy == t.mp_spy
      cpo_h == t.cpo_h
      md_spy == t.md_spy
      md_h_min == t.md_h_min
      md_od_exty == t.md_od_exty
      od_spy == t.od_spy
      mos_type == specs.mos_type
      w == specs.width
      w_sub == specs.sub_width
      od_h == get_od_height(t, w)
      md_h == Max2(od_h + 2 * md_od_exty, md_h_min)
      g_conn_info == get_conn_info(t, conn_layer, TRUE)
      g_m1_dyt == (g_conn_info.via_w \div 2) + g_conn_info.via_top_enc
      g_m1_sp_le == g_conn_info.sp_le
      d_conn_info == get_conn_info(t, conn_layer, FALSE)
      d_m1_h == Max2(md_h, d_conn_info.len_min)
      blk_yb == 0
      cpo_bot_yb == blk_yb - (cpo_h \div 2)
      cpo_bot_yt == cpo_bot_yb + cpo_h
      mp_yb == Max2(mp_spy \div 2, cpo_bot_yt + mp_cpo_spy)
      mp_yt == mp_yb + mp_h
      mp_yc == (mp_yt + mp_yb) \div 2
      g_m1_yt == mp_yc + g_m1_dyt
      od_yb0 == g_m1_yt + g_m1_sp_le + ((d_m1_h - od_h) \div 2)
      od_yb == snap_od_edge(t, od_yb0, FALSE, TRUE)
      od_yt == od_yb + od_h
      md_yb == md_yb_of(od_yb, od_yt, md_h)
      md_yt == md_yb + md_h
      blk_yt == blk_yt_of(t, od_yt)
      conn_info == get_conn_yloc_info(t, conn_layer, md_yb, md_yt,
                                      is_substrate(mos_type))
      m1_yt == conn_info.ds[2]
      m1_yb == conn_info.g[1]
      m1_spy == d_conn_info.sp_le
  IN  [raised |-> "none", lch |-> t.lch, width |-> w, sub_width |-> w_sub,
       row_type |-> mos_type, threshold |-> specs.threshold,
       height |-> blk_yt, flip |-> specs.flip,
       top_einfo |-> [row_type |-> mos_type, threshold |-> specs.threshold,
                      margins |-> [od |-> <<blk_yt - od_yt, od_spy>>,
                                   md |-> <<blk_yt - md_yt, md_spy>>,
                                   m1 |-> <<blk_yt - m1_yt, m1_spy>>]],
       bot_einfo |-> [row_type |-> mos_type, threshold |-> specs.threshold,
                      margins |-> [od |-> <<od_yb, od_spy>>,
                                   md |-> <<md_yb, md_spy>>,
                                   m1 |-> <<m1_yb, m1_spy>>]],
       od_yb |-> od_yb, md_y |-> <<md_yb, md_yt>>,
       po_y |-> <<cpo_h \div 2, blk_yt - (cpo_h \div 2)>>,
       mp_y |-> conn_info.mp,
       g_conn_y |-> conn_info.g, g_m_conn_y |-> conn_info.g_m,
       ds_conn_y |-> conn_info.ds, ds_m_conn_y |-> conn_info.ds_m,
       ds_g_conn_y |-> conn_info.ds_g, sub_conn_y |-> conn_info.sub,
       guard_ring |-> (guard_ring /\ is_substrate(mos_type))]

(***************************************************************************)
(* Row geometry builder: initial states and operation.                     *)
(***************************************************************************)
MaxConnLayer == 2

RowSpecs(widths, sub_widths) ==
  [mos_type : MOSTypes, width : widths, sub_width : sub_widths,
   threshold : {"standard"}, flip : {FALSE}, guard_ring : {FALSE}]

TechRow ==
  { [NominalTech EXCEPT !.fin_p = p, !.fin_h = h, !.od_fin_exty_constants = c,
                        !.cpo_h = ch, !.mp_spy = ms, !.mp_h = mh,
                        !.g_wire_info.info_list[1].via_w = vw, !.g_len_min = gl,
                        !.d_len_min = dl, !.md_h_min = mm, !.cpo_od_spy = co] :
      p \in FinPSet, h \in FinHSet, c \in {<<0, 0, 0>>, <<1, 0, 0>>},
      ch \in {2, 3}, ms \in {2, 8}, mh \in {2, 3}, vw \in {2, 3},
      gl \in {2, 7}, dl \in {3, 10}, mm \in {2, 9}, co \in {1, 2} }

InitRow == tech \in TechRow /\ call = NoCall

GetMosRowInfo ==
  \E conn_layer \in 1..MaxConnLayer, specs \in RowSpecs(1..MaxWidth, {1}) :
    /\ call = NoCall
    /\ call' = [op |-> "get_mos_row_info", conn_layer |-> conn_layer,
                specs |-> specs,
                ret |-> get_mos_row_info(tech, conn_layer, specs)]
    /\ UNCHANGED tech

NextRow == GetMosRowInfo \/ Return

SpecRow == InitRow /\ [][NextRow]_vars

RowReturned == call.op = "get_mos_row_info" /\ call.ret.raised = "none"

(***************************************************************************)
(* C3: both y-boundaries of the active area of every row info lie on the   *)
(* fin grid: get_fin_idx in exact mode succeeds on od_yb as a bottom edge  *)
(* and on od_yb + get_od_height(width) as a top edge.                      *)
(***************************************************************************)
OdEdgesOnFinGrid ==
  RowReturned =>
    LET od_yb == call.ret.od_yb
        od_yt == od_yb + get_od_height(tech, call.ret.width)
    IN  /\ get_fin_idx(tech, od_yb, FALSE, "None").raised = "none"
        /\ get_fin_idx(tech, od_yt, TRUE, "None").raised = "none"

(***************************************************************************)
(* C4: the row height is a multiple of the fin pitch, at least the active  *)
(* area's top edge + cpo_od_spy + cpo_h // 2, and less than one fin pitch  *)
(* above it.                                                               *)
(***************************************************************************)
RowHeightQuantized ==
  RowReturned =>
    LET od_yt == call.ret.od_yb + get_od_height(tech, call.ret.width)
        need == od_yt + tech.cpo_od_spy + (tech.cpo_h \div 2)
        height == call.ret.height
    IN  /\ \E k \in 0..(height + 1) : height = k * tech.fin_p
        /\ height >= need
        /\ height < need + tech.fin_p

RowHeightQuantizedWitness ==
  /\ RowReturned
  /\ call.ret.height >
       call.ret.od_yb + get_od_height(tech, call.ret.width)
         + tech.cpo_od_spy + (tech.cpo_h \div 2)
  /\ call.ret.width > 1

(***************************************************************************)
(* C5: in a transistor row the gate span and the drain/source span on      *)
(* connection layer 1 keep the line-end spacing of the gate wire,          *)
(* g_conn_y top + sp_le <= ds_conn_y bottom, and the gate span is not      *)
(* inverted, g_conn_y bottom <= g_conn_y top.                              *)
(***************************************************************************)
GateDrainSpansApart ==
  (RowReturned /\ ~is_substrate(call.ret.row_type)) =>
    /\ call.ret.g_conn_y[2] + get_conn_info(tech, 1, TRUE).sp_le
         <= call.ret.ds_conn_y[1]
    /\ call.ret.g_conn_y[1] <= call.ret.g_conn_y[2]

GateDrainSpansApartWitness ==
  /\ RowReturned
  /\ ~is_substrate(call.ret.row_type)
  /\ call.ret.g_conn_y[2] + get_conn_info(tech, 1, TRUE).sp_le
       = call.ret.ds_conn_y[1]
  /\ call.ret.g_conn_y[1] < call.ret.g_conn_y[2]
  /\ call.ret.ds_conn_y[1] < call.ret.ds_conn_y[2]

(***************************************************************************)
(* Row extension policy: the gap between two abutting rows.  The result    *)
(* is ExtWidthInfo(w_list, w_min): the gaps of w_list and every gap of at  *)
(* least w_min fin pitches are allowed.                                    *)
(***************************************************************************)
get_ext_width_info_NoM1(t, bot_row_ext_info, top_row_ext_info, ignore_vm_sp_le) ==
  [w_list |-> <<0>>, w_min |-> CeilDiv(t.cpo_h + t.cpo_spy, t.fin_p)]

get_ext_width_info_M1Only(t, bot_row_ext_info, top_row_ext_info, ignore_vm_sp_le) ==
  LET fin_p == t.fin_p
      top_m1 == top_row_ext_info.margins.m1[1]
      m1_spy == top_row_ext_info.margins.m1[2]
      bot_m1 == bot_row_ext_info.margins.m1[1]
      min_ext_w1 == CeilDiv(t.cpo_h + t.cpo_spy, fin_p)
      min_ext_w2 == IF ~ignore_vm_sp_le
                    THEN CeilDiv(m1_spy - (top_m1 + bot_m1), fin_p)
                    ELSE 0
  IN  IF min_ext_w2 > 0
      THEN [w_list |-> <<>>, w_min |-> min_ext_w2]
      ELSE [w_list |-> <<0>>, w_min |-> min_ext_w1]

get_ext_width_info(t, bot_row_ext_info, top_row_ext_info, ignore_vm_sp_le) ==
  LET fin_p == t.fin_p
      cpo_h == t.cpo_h
      cpo_spy == t.cpo_spy
      top_m1 == top_row_ext_info.margins.m1[1]
      m1_spy == top_row_ext_info.margins.m1[2]
      bot_m1 == bot_row_ext_info.margins.m1[1]
      min_ext_w1 == CeilDiv(cpo_h + cpo_spy, fin_p)
      min_ext_w2 == IF ~ignore_vm_sp_le
                    THEN CeilDiv(m1_spy - (top_m1 + bot_m1), fin_p)
                    ELSE 0
  IN  IF min_ext_w2 > 0
      THEN [w_list |-> <<>>, w_min |-> Max2(min_ext_w1, min_ext_w2)]
      ELSE [w_list |-> <<0>>, w_min |-> min_ext_w1]

(***************************************************************************)
(* Row extension policy: initial states and operation.  The two extension  *)
(* infos are those of two rows built by get_mos_row_info: the top edge of  *)
(* the row below and the bottom edge of the row above.                     *)
(***************************************************************************)
MaxGap == 3

TechExt ==
  { [NominalTech EXCEPT !.fin_p = p, !.cpo_h = ch, !.cpo_spy = cs,
                        !.d_sp_le = sp, !.g_len_min = gl, !.d_len_min = dl] :
      p \in FinPSet, ch \in {2, 3}, cs \in {1, 6}, sp \in {2, 9, 14},
      gl \in {2, 7}, dl \in {3, 10} }

InitExt == tech \in TechExt /\ call = NoCall

GetExtWidthInfo ==
  \E bot_specs \in RowSpecs(1..MaxWidth, {1}),
     top_specs \in RowSpecs(1..MaxWidth, {1}), ignore_vm_sp_le \in BOOLEAN :
    /\ call = NoCall
    /\ \E bot_row_ext_info \in {get_mos_row_info(tech, 1, bot_specs).top_einfo},
          top_row_ext_info \in {get_mos_row_info(tech, 1, top_specs).bot_einfo} :
         call' = [op |-> "get_ext_width_info",
                  bot_row_ext_info |-> bot_row_ext_info,
                  top_row_ext_info |-> top_row_ext_info,
                  ignore_vm_sp_le |-> ignore_vm_sp_le,
                  ret |-> get_ext_width_info(tech, bot_row_ext_info,
                                             top_row_ext_info, ignore_vm_sp_le)]
    /\ UNCHANGED tech

NextExt == GetExtWidthInfo \/ Return

SpecExt == InitExt /\ [][NextExt]_vars

ExtReturned == call.op = "get_ext_width_info"

\* gap g, in fin pitches, is allowed by an ExtWidthInfo
Permits(info, g) ==
  \/ \E k \in 1..Len(info.w_list) : info.w_list[k] = g
  \/ g >= info.w_min

\* the first-metal margins of the two rows and the spacing they must keep
TopM1 == call.top_row_ext_info.margins.m1[1]
BotM1 == call.bot_row_ext_info.margins.m1[1]
M1Spy == call.top_row_ext_info.margins.m1[2]

(***************************************************************************)
(* C6: with ignore_vm_sp_le = False, every gap g that get_ext_width_info   *)
(* allows leaves the first-metal wires of the two rows at least the        *)
(* line-end spacing apart: top margin + bottom margin + g*fin_p >= m1_spy. *)
(***************************************************************************)
StackedM1LineEndSpacing ==
  (ExtReturned /\ ~call.ignore_vm_sp_le) =>
    \A g \in 0..(call.ret.w_min + MaxGap) :
      Permits(call.ret, g) => TopM1 + BotM1 + g * tech.fin_p >= M1Spy

StackedM1LineEndSpacingWitness ==
  /\ ExtReturned
  /\ ~call.ignore_vm_sp_le
  /\ TopM1 + BotM1 < M1Spy
  /\ call.ret.w_min > CeilDiv(tech.cpo_h + tech.cpo_spy, tech.fin_p)
  /\ TopM1 + BotM1 + (call.ret.w_min - 1) * tech.fin_p < M1Spy

(***************************************************************************)
(* C7: the minimum gap is the maximum of (a) ceil((cpo_h + cpo_spy) /      *)
(* fin_p) and (b) ceil((m1_spy - (top margin + bottom margin)) / fin_p),   *)
(* (a) alone when ignore_vm_sp_le is true.                                 *)
(***************************************************************************)
ClearanceGap == CeilDiv(tech.cpo_h + tech.cpo_spy, tech.fin_p)

ShortfallGap == CeilDiv(M1Spy - (TopM1 + BotM1), tech.fin_p)

RequiredGap ==
  IF call.ignore_vm_sp_le THEN ClearanceGap ELSE Max2(ClearanceGap, ShortfallGap)

\* C7 as stated: moreover no gap below the maximum is reported as allowed
MinGapIsMaxAndNothingBelow ==
  ExtReturned =>
    /\ call.ret.w_min = RequiredGap
    /\ \A g \in 0..(RequiredGap - 1) : ~Permits(call.ret, g)

\* C7 as amended: the only gap below the maximum ever reported as allowed is
\* 0, the direct abutment, and it is allowed exactly when (b) asks for no gap
MinGapIsMaxAndOnlyAbutmentBelow ==
  ExtReturned =>
    /\ call.ret.w_min = RequiredGap
    /\ \A g \in 1..(RequiredGap - 1) : ~Permits(call.ret, g)
    /\ (RequiredGap > 0) =>
         (Permits(call.ret, 0) <=> (call.ignore_vm_sp_le \/ ShortfallGap <= 0))

MinGapIsMaxWitness ==
  /\ ExtReturned
  /\ ~call.ignore_vm_sp_le
  /\ ShortfallGap > ClearanceGap
  /\ ClearanceGap > 1
  /\ call.ret.w_min = ShortfallGap

(***************************************************************************)
(* Layout sink.  A LayoutInfoBuilder is the sequence of what was added to  *)
(* it: rectangle arrays (layer, box, nx copies at pitch spx) and via       *)
(* arrays; get_info seals it with the bounding box.                        *)
(***************************************************************************)
BBox(xl, yl, xh, yh) == [xl |-> xl, yl |-> yl, xh |-> xh, yh |-> yh]

add_rect_arr(lay, box, nx, spx) ==
  [kind |-> "rect", lay |-> lay, box |-> box, nx |-> nx, spx |-> spx]

get_info(builder, bbox) == [items |-> builder, bbox |-> bbox]

\* ConnInfo.get_via_info: the enclosures depend on the direction of the
\* bottom and of the top wire; num vias are stacked along the top wire
get_via_info(conn_info, via_type, xc, yc, bot_w, ortho, num, nx, spx) ==
  LET vw == conn_info.via_w
      vh == conn_info.via_h
      vsp == conn_info.via_sp
      top_is_x == (conn_info.orient = "x")
      bot_is_x == IF ortho THEN ~top_is_x ELSE top_is_x
      bot_encx == IF bot_is_x THEN conn_info.via_bot_enc ELSE (bot_w - vw) \div 2
      bot_ency == IF bot_is_x THEN (bot_w - vh) \div 2 ELSE conn_info.via_bot_enc
      top_encx == IF top_is_x THEN conn_info.via_top_enc ELSE (conn_info.w - vw) \div 2
      top_ency == IF top_is_x THEN (conn_info.w - vh) \div 2 ELSE conn_info.via_top_enc
  IN  [kind |-> "via", via_type |-> via_type, xc |-> xc, yc |-> yc,
       w |-> vw, h |-> vh,
       enc1 |-> <<bot_encx, bot_encx, bot_ency, bot_ency>>,
       enc2 |-> <<top_encx, top_encx, top_ency, top_ency>>,
       vnx |-> IF top_is_x THEN num ELSE 1,
       vny |-> IF top_is_x THEN 1 ELSE num,
       vspx |-> vsp, vspy |-> vsp,
       nx |-> nx, ny |-> 1, spx |-> spx, spy |-> 0]

sub_type(mos_type) == IF is_pwell(mos_type) THEN "ptap" ELSE "ntap"

\* the threshold, implant and well layers drawn over a box
thres_imp_well_layers(row_type, mos_type, threshold, box) ==
  LET well_type == IF is_substrate(mos_type) /\ mos_type # sub_type(row_type)
                   THEN mos_type ELSE row_type
  IN  [kind |-> "imp", thres |-> <<mos_type, threshold>>, imp |-> mos_type,
       well |-> well_type, box |-> box]

add_po_array(t, po_lp, po_y, start, stop) ==
  LET lch == t.lch
      sd_pitch == t.sd_pitch
      po_x0 == ((sd_pitch - lch) \div 2) + sd_pitch * start
      fg == stop - start
  IN  add_rect_arr(po_lp, BBox(po_x0, po_y[1], po_x0 + lch, po_y[2]), fg, sd_pitch)

add_fb(t, rect) ==
  LET dy == (t.fin_p + fin_h(t)) \div 2
  IN  add_rect_arr("FB", BBox(rect.xl, rect.yl - dy, rect.xh, rect.yh + dy), 1, 0)

(***************************************************************************)
(* Filler between two rows: which row's implant and threshold is drawn.    *)
(***************************************************************************)
choose_top_implant_PreferSubstrate(bot_type, top_type) ==
  IF is_substrate(bot_type) # is_substrate(top_type)
  THEN is_substrate(top_type)
  ELSE is_pwell(top_type)

choose_top_implant(bot_type, top_type) ==
  IF is_substrate(bot_type) # is_substrate(top_type)
  THEN is_substrate(bot_type)
  ELSE is_pwell(top_type)

get_mos_ext_info_helper(t, num_cols, blk_h, row_type, threshold) ==
  LET sd_pitch == t.sd_pitch
      cpo_h == t.cpo_h
      blk_w == num_cols * sd_pitch
      cpo_h2 == cpo_h \div 2
      blk_rect == BBox(0, 0, blk_w, blk_h)
      builder ==
        << add_rect_arr("CPO", BBox(0, -cpo_h2, blk_w, cpo_h2), 1, 0),
           add_rect_arr("CPO", BBox(0, blk_h - cpo_h2, blk_w, blk_h + cpo_h2), 1, 0),
           add_fb(t, blk_rect),
           add_po_array(t, "PO_DUMMY", <<0, blk_h>>, 0, num_cols),
           thres_imp_well_layers(row_type, row_type, threshold, blk_rect) >>
  IN  [lay_info |-> get_info(builder, blk_rect),
       edge_info |-> [blk_h |-> blk_h, row_type |-> row_type,
                      mos_type |-> row_type, threshold |-> threshold]]

get_mos_ext_info(t, num_cols, blk_h, bot_einfo, top_einfo) ==
  LET top == choose_top_implant(bot_einfo.row_type, top_einfo.row_type)
      row_type == IF top THEN top_einfo.row_type ELSE bot_einfo.row_type
      threshold == IF top THEN top_einfo.threshold ELSE bot_einfo.threshold
  IN  get_mos_ext_info_helper(t, num_cols, blk_h, row_type, threshold)

get_mos_ext_gr_info(t, num_cols, blk_h, bot_einfo, top_einfo, gr_sub_type) ==
  LET top == choose_top_implant(bot_einfo.row_type, top_einfo.row_type)
      threshold == IF top THEN top_einfo.threshold ELSE bot_einfo.threshold
  IN  get_mos_ext_info_helper(t, num_cols, blk_h, gr_sub_type, threshold)

(***************************************************************************)
(* Filler policy: initial states and operations.                           *)
(***************************************************************************)
MaxCols == 2

Thresholds == {"standard", "fast"}

\* the extension info of a row edge, as far as the filler reads it
RowExtInfos == [row_type : MOSTypes, threshold : Thresholds]

TechPolicy == { [NominalTech EXCEPT !.cpo_h = ch] : ch \in {2, 3} }

InitPolicy == tech \in TechPolicy /\ call = NoCall

GetMosExtInfo ==
  \E num_cols \in 1..MaxCols, blk_h \in {tech.fin_p},
     bot_einfo \in RowExtInfos, top_einfo \in RowExtInfos :
    /\ call = NoCall
    /\ call' = [op |-> "get_mos_ext_info", num_cols |-> num_cols, blk_h |-> blk_h,
                bot_einfo |-> bot_einfo, top_einfo |-> top_einfo,
                ret |-> get_mos_ext_info(tech, num_cols, blk_h, bot_einfo, top_einfo)]
    /\ UNCHANGED tech

GetMosExtGrInfo ==
  \E num_cols \in 1..MaxCols, blk_h \in {tech.fin_p},
     bot_einfo \in RowExtInfos, top_einfo \in RowExtInfos,
     gr_sub_type \in {"ptap", "ntap"} :
    /\ call = NoCall
    /\ call' = [op |-> "get_mos_ext_gr_info", num_cols |-> num_cols,
                blk_h |-> blk_h, bot_einfo |-> bot_einfo, top_einfo |-> top_einfo,
                sub_type |-> gr_sub_type,
                ret |-> get_mos_ext_gr_info(tech, num_cols, blk_h, bot_einfo,
                                            top_einfo, gr_sub_type)]
    /\ UNCHANGED tech

NextPolicy == GetMosExtInfo \/ GetMosExtGrInfo \/ Return

SpecPolicy == InitPolicy /\ [][NextPolicy]_vars

(***************************************************************************)
(* C8: the row whose implant and threshold get_mos_ext_info draws in the   *)
(* filler is one of the two rows given, type and threshold from the same   *)
(* row; it is the transistor row when exactly one row is a substrate row,  *)
(* and a p-well row when both are of one category and one is p-well.       *)
(***************************************************************************)
\* the filler draws the implant and threshold of row `row'
FillerUses(row) ==
  /\ call.ret.edge_info.row_type = row.row_type
  /\ call.ret.edge_info.threshold = row.threshold
  /\ \E k \in 1..Len(call.ret.lay_info.items) :
       LET item == call.ret.lay_info.items[k]
       IN  /\ item.kind = "imp"
           /\ item.imp = row.row_type
           /\ item.well = row.row_type
           /\ item.thres = <<row.row_type, row.threshold>>

DominantRowType ==
  call.op = "get_mos_ext_info" =>
    LET bot == call.bot_einfo
        top == call.top_einfo
        used == call.ret.edge_info.row_type
    IN  /\ FillerUses(bot) \/ FillerUses(top)
        /\ (is_substrate(bot.row_type) /\ ~is_substrate(top.row_type))
             => FillerUses(top)
        /\ (~is_substrate(bot.row_type) /\ is_substrate(top.row_type))
             => FillerUses(bot)
        /\ (is_substrate(bot.row_type) = is_substrate(top.row_type)
              /\ (is_pwell(bot.row_type) \/ is_pwell(top.row_type)))
             => is_pwell(used)

DominantRowTypeWitness ==
  /\ call.op = "get_mos_ext_info"
  /\ call.bot_einfo.row_type = "ptap"
  /\ call.top_einfo.row_type = "pch"
  /\ call.bot_einfo.threshold # call.top_einfo.threshold
  /\ FillerUses(call.top_einfo)
  /\ ~FillerUses(call.bot_einfo)

(***************************************************************************)
(* Device and tap emitter.                                                 *)
(***************************************************************************)
od_po_extx(t) ==
  LET val == t.od_po_extx_constants
  IN  val[1] + ((val[2] * t.lch + val[3] * t.sd_pitch) \div 2)

\* the gate poly, active area, contacts, implants and fin boundary of fg
\* fingers; returns what was added to the builder and the block box
get_mos_active_rect_list(t, row_info, fg, w, dev_type) ==
  LET lch == t.lch
      sd_pitch == t.sd_pitch
      md_w == t.md_w
      row_type == row_info.row_type
      blk_yt == row_info.height
      od_yb == row_info.od_yb
      md_y == row_info.md_y
      blk_xr == fg * sd_pitch
      po_x0 == (sd_pitch - lch) \div 2
      od_yt == od_yb + get_od_height(t, w)
      od_sd_dx == od_po_extx(t) - po_x0
      od_xl == -od_sd_dx
      od_xr == fg * sd_pitch + od_sd_dx
      md_x0 == (-md_w) \div 2
      blk_rect == BBox(0, 0, blk_xr, blk_yt)
  IN  [items |->
         << add_po_array(t, "PO", <<0, blk_yt>>, 0, fg),
            add_rect_arr("OD", BBox(od_xl, od_yb, od_xr, od_yt), 1, 0),
            add_rect_arr("MD", BBox(md_x0, md_y[1], md_x0 + md_w, md_y[2]),
                         fg + 1, sd_pitch),
            thres_imp_well_layers(row_type, dev_type, row_info.threshold, blk_rect),
            add_fb(t, blk_rect) >>,
       bbox |-> blk_rect]

\* the number of drain/source vias stacked over the contact band md_y and
\* under the metal span ds_y
ds_via_num_BandOnly(d_info, md_yb, md_yt, ds_yb, ds_yt) ==
  (md_yt - md_yb - d_info.via_bot_enc * 2 + d_info.via_sp)
     \div (d_info.via_h + d_info.via_sp)

ds_via_num_BandFlipped(d_info, md_yb, md_yt, ds_yb, ds_yt) ==
  Min2((md_yb - md_yt - d_info.via_bot_enc * 2 + d_info.via_sp)
          \div (d_info.via_h + d_info.via_sp),
       (ds_yt - ds_yb - d_info.via_top_enc * 2 + d_info.via_sp)
          \div (d_info.via_h + d_info.via_sp))

ds_via_num(d_info, md_yb, md_yt, ds_yb, ds_yt) ==
  LET via_pitch == d_info.via_h + d_info.via_sp
      vnum1 == (md_yt - md_yb - d_info.via_bot_enc * 2 + d_info.via_sp) \div via_pitch
      vnum2 == (ds_yt - ds_yb - d_info.via_top_enc * 2 + d_info.via_sp) \div via_pitch
  IN  Min2(vnum1, vnum2)

\* the number of source and of drain contacts of seg segments
conn_num_s_RoundUp(seg) == ((seg + 1) \div 2) + 1

conn_num_s(seg) == (seg \div 2) + 1

conn_num_d(seg) == (seg + 1) \div 2

export_mid_AnyStack(options, stack) == options.export_mid

\* the middle node is exported only on request and only for stacks of two
export_mid_of(options, stack) == options.export_mid /\ stack = 2

get_mos_conn_info(t, row_info, conn_layer, seg, w, stack, g_on_s, options) ==
  IF conn_layer # 1 THEN [raised |-> "AssertionError"]
  ELSE
  LET lch == t.lch
      sd_pitch == t.sd_pitch
      mp_h == t.mp_h
      mp_po_extx == t.mp_po_extx
      md_w == t.md_w
      g_info == get_conn_info(t, 1, TRUE)
      d_info == get_conn_info(t, 1, FALSE)
      export_mid == export_mid_of(options, stack)
      row_type == row_info.row_type
      ds_yb == row_info.ds_conn_y[1]
      ds_yt == row_info.ds_conn_y[2]
      threshold == row_info.threshold
      mp_yb == row_info.mp_y[1]
      mp_yt == row_info.mp_y[2]
      md_yb == row_info.md_y[1]
      md_yt == row_info.md_y[2]
      fg == seg * stack
      wire_pitch == stack * sd_pitch
      conn_pitch == 2 * wire_pitch
      num_s == conn_num_s(seg)
      num_d == conn_num_d(seg)
      s_xc == 0
      d_xc == wire_pitch
      num_g == IF g_on_s THEN (fg \div 2) + 1 ELSE (fg + 1) \div 2
      g_xc == IF g_on_s THEN 0 ELSE sd_pitch
      g_pitch == 2 * sd_pitch
      active == get_mos_active_rect_list(t, row_info, fg, w, row_info.row_type)
      bbox == active.bbox
      mp_po_dx == ((sd_pitch + lch) \div 2) + mp_po_extx
      mp_yc == (mp_yb + mp_yt) \div 2
      m1_yc == (md_yb + md_yt) \div 2
      vnum == ds_via_num(d_info, md_yb, md_yt, ds_yb, ds_yt)
      m_xc == sd_pitch
      num_m == fg + 1 - num_s - num_d
      builder ==
        active.items \o
        << add_rect_arr("MP", BBox(g_xc - mp_po_dx, mp_yb, g_xc + mp_po_dx, mp_yt),
                        num_g, g_pitch),
           get_via_info(g_info, "M1_LiPo", g_xc, mp_yc, mp_h, TRUE, 1, num_g, g_pitch),
           get_via_info(d_info, "M1_LiAct", d_xc, m1_yc, md_w, FALSE, vnum,
                        num_d, conn_pitch),
           get_via_info(d_info, "M1_LiAct", s_xc, m1_yc, md_w, FALSE, vnum,
                        num_s, conn_pitch) >> \o
        (IF export_mid
         THEN << get_via_info(d_info, "M1_LiAct", m_xc, m1_yc, md_w, FALSE, vnum,
                              num_m, wire_pitch) >>
         ELSE << >>)
      edge_info == [mos_type |-> row_type, has_od |-> TRUE, is_sub |-> FALSE]
      be == [row_type |-> row_type, threshold |-> threshold, guard_ring |-> FALSE,
             fg_dev |-> << <<fg, row_type>> >>]
  IN  [raised |-> "none", lay_info |-> get_info(builder, bbox),
       left_info |-> edge_info, right_info |-> edge_info,
       bot_info |-> be, top_info |-> be,
       g_info |-> <<g_xc, num_g, g_pitch>>,
       d_info |-> <<d_xc, num_d, conn_pitch>>,
       s_info |-> <<s_xc, num_s, conn_pitch>>,
       m_info |-> IF export_mid THEN <<m_xc, num_m, wire_pitch>> ELSE << >>,
       shorted_ports |-> <<"G">>]

(***************************************************************************)
(* Device emitter: initial states and operation.  The row info handed in   *)
(* is the one get_mos_row_info built for the row.                          *)
(***************************************************************************)
MaxSeg == 3
MaxStack == 2

TechConn ==
  { [NominalTech EXCEPT !.d_wire_info.info_list[1].via_h = vh,
                        !.d_wire_info.info_list[1].via_sp = vs,
                        !.d_wire_info.info_list[1].via_bot_enc = be,
                        !.d_wire_info.info_list[1].via_top_enc = te,
                        !.md_h_min = mm, !.d_len_min = dl] :
      vh \in {1, 2}, vs \in {1, 2}, be \in {0, 3}, te \in {0, 2},
      mm \in {4}, dl \in {3, 14} }

InitConn == tech \in TechConn /\ call = NoCall

GetMosConnInfo ==
  \E specs \in RowSpecs(1..MaxWidth, {1}), conn_layer \in 1..MaxConnLayer,
     seg \in 1..MaxSeg, stack \in 1..MaxStack, g_on_s \in BOOLEAN,
     export_mid \in BOOLEAN :
    /\ call = NoCall
    /\ ~is_substrate(specs.mos_type)
    /\ \E row_info \in {get_mos_row_info(tech, 1, specs)} :
         call' = [op |-> "get_mos_conn_info", row_info |-> row_info,
                  conn_layer |-> conn_layer, seg |-> seg, w |-> specs.width,
                  stack |-> stack, g_on_s |-> g_on_s,
                  options |-> [export_mid |-> export_mid],
                  ret |-> get_mos_conn_info(tech, row_info, conn_layer, seg,
                                            specs.width, stack, g_on_s,
                                            [export_mid |-> export_mid])]
    /\ UNCHANGED tech

NextConn == GetMosConnInfo \/ Return

SpecConn == InitConn /\ [][NextConn]_vars

ConnReturned == call.op = "get_mos_conn_info" /\ call.ret.raised = "none"

(***************************************************************************)
(* C10: the drain/source via count of get_mos_conn_info is the smaller of  *)
(* the capacity of the contact band and the capacity of the drain/source   *)
(* metal span, and that many vias fit in both: vnum*via_h + (vnum-1)*      *)
(* via_sp + 2*enc is at most the height of the region, with the bottom     *)
(* enclosure for the band and the top enclosure for the span.              *)
(***************************************************************************)
\* n stacked vias with enclosure enc on both ends fit in height hgt
ViasFit(d, n, enc, hgt) == n * d.via_h + (n - 1) * d.via_sp + 2 * enc <= hgt

\* the capacity of a landing region: the largest count that fits
ViaCapacity(d, enc, hgt) ==
  CHOOSE n \in -(hgt + 8)..(hgt + 8) :
    ViasFit(d, n, enc, hgt) /\ ~ViasFit(d, n + 1, enc, hgt)

DsViaItems ==
  { k \in 1..Len(call.ret.lay_info.items) :
      /\ call.ret.lay_info.items[k].kind = "via"
      /\ call.ret.lay_info.items[k].via_type = "M1_LiAct" }

DsViasFitBothRegions ==
  ConnReturned =>
    LET d == get_conn_info(tech, 1, FALSE)
        md_h == call.row_info.md_y[2] - call.row_info.md_y[1]
        ds_h == call.row_info.ds_conn_y[2] - call.row_info.ds_conn_y[1]
    IN  /\ DsViaItems # {}
        /\ \A k \in DsViaItems :
             LET vnum == call.ret.lay_info.items[k].vny
             IN  /\ vnum = Min2(ViaCapacity(d, d.via_bot_enc, md_h),
                                ViaCapacity(d, d.via_top_enc, ds_h))
                 /\ ViasFit(d, vnum, d.via_bot_enc, md_h)
                 /\ ViasFit(d, vnum, d.via_top_enc, ds_h)

DsViasFitBothRegionsWitness ==
  /\ ConnReturned
  /\ \E k \in DsViaItems :
       LET d == get_conn_info(tech, 1, FALSE)
           vnum == call.ret.lay_info.items[k].vny
           md_h == call.row_info.md_y[2] - call.row_info.md_y[1]
           ds_h == call.row_info.ds_conn_y[2] - call.row_info.ds_conn_y[1]
       IN  /\ vnum >= 2
           /\ ViasFit(d, vnum + 1, d.via_bot_enc, md_h)
           /\ ~ViasFit(d, vnum + 1, d.via_top_enc, ds_h)

(***************************************************************************)
(* Tap emitter.  The gate lines (seg poly lines of the block and the two   *)
(* of its neighbours, num_po in all) are tied to first metal in pairs.     *)
(***************************************************************************)
\* one half of the paired gate contacts of an odd number of gate lines
add_vg_half(t, g_info, vg_x, num_vg2, mp_y) ==
  LET sd_pitch == t.sd_pitch
      mp_delta == ((sd_pitch + t.lch) \div 2) + t.mp_po_extx
      vg_pitch == 2 * sd_pitch
      mp_yc == (mp_y[1] + mp_y[2]) \div 2
      xl == vg_x - mp_delta
      xr == vg_x + (num_vg2 - 1) * vg_pitch + mp_delta
  IN  << add_rect_arr("MP", BBox(xl, mp_y[1], xr, mp_y[2]), num_vg2, vg_pitch),
         get_via_info(g_info, "M1_LiPo", vg_x, mp_yc, t.mp_h, TRUE, 1,
                      num_vg2, vg_pitch) >>

get_mos_tap_info(t, row_info, conn_layer, seg, options) ==
  LET row_type == row_info.row_type
      guard_ring == IF options.guard_ring = "unset" THEN row_info.guard_ring
                    ELSE options.guard_ring = "True"
      tap_type == IF guard_ring /\ options.sub_type # "unset"
                  THEN options.sub_type ELSE sub_type(row_type)
      lch == t.lch
      sd_pitch == t.sd_pitch
      mp_h == t.mp_h
      mp_po_extx == t.mp_po_extx
      md_w == t.md_w
      g_info == get_conn_info(t, 1, TRUE)
      d_info == get_conn_info(t, 1, FALSE)
      threshold == row_info.threshold
      ds_yt == row_info.ds_conn_y[2]
      mp_yb == row_info.mp_y[1]
      mp_yt == row_info.mp_y[2]
      md_yb == row_info.md_y[1]
      md_yt == row_info.md_y[2]
      md_yc == (md_yt + md_yb) \div 2
      ds_yb == md_yc - (ds_yt - md_yc)
      fg == seg
      num_wire == seg + 1
      num_po == num_wire + 1
      active == get_mos_active_rect_list(t, row_info, fg, row_info.sub_width, tap_type)
      bbox == active.bbox
      bbox_xm == (bbox.xl + bbox.xh) \div 2
      mp_yc == (mp_yb + mp_yt) \div 2
      mp_delta == ((sd_pitch + lch) \div 2) + mp_po_extx
      num_vg == num_po \div 2
      \* odd number of gate lines: 3 or 5 of them are left over in the middle
      num_vg2 == IF num_vg % 2 = 1 THEN (num_vg - 1) \div 2 ELSE (num_vg - 2) \div 2
      num_vgm == IF num_vg % 2 = 1 THEN 2 ELSE 4
      vgm_x == bbox_xm - (((num_vgm - 1) * sd_pitch) \div 2)
      mp_xl == vgm_x - mp_delta
      mp_xr == vgm_x + (num_vgm - 1) * sd_pitch + mp_delta
      vg_pitch == 2 * sd_pitch
      gate_items ==
        IF num_po % 2 = 1
        THEN << add_rect_arr("MP", BBox(mp_xl, mp_yb, mp_xr, mp_yt), num_vgm, sd_pitch),
                get_via_info(g_info, "M1_LiPo", vgm_x, mp_yc, mp_h, TRUE, 1,
                             num_vgm, sd_pitch) >> \o
             (IF num_vg2 > 0
              THEN add_vg_half(t, g_info, 0, num_vg2, row_info.mp_y) \o
                   add_vg_half(t, g_info,
                               (num_wire - 1) * sd_pitch - (num_vg2 - 1) * vg_pitch,
                               num_vg2, row_info.mp_y)
              ELSE << >>)
        ELSE << add_rect_arr("MP", BBox(-mp_delta, mp_yb, mp_delta, mp_yt),
                             num_vg, vg_pitch),
                get_via_info(g_info, "M1_LiPo", 0, mp_yc, mp_h, TRUE, 1,
                             num_vg, vg_pitch) >>
      m1_yc == (md_yb + md_yt) \div 2
      vnum == ds_via_num(d_info, md_yb, md_yt, ds_yb, ds_yt)
      builder ==
        active.items \o gate_items \o
        << get_via_info(d_info, "M1_LiAct", 0, m1_yc, md_w, FALSE, vnum,
                        num_wire, sd_pitch) >>
      edge_info == [mos_type |-> tap_type, has_od |-> TRUE, is_sub |-> TRUE]
      be == [row_type |-> row_type, threshold |-> threshold,
             guard_ring |-> guard_ring, fg_dev |-> << <<fg, tap_type>> >>]
      wire_info == <<0, num_wire, sd_pitch>>
  IN  [raised |-> "none", lay_info |-> get_info(builder, bbox),
       left_info |-> edge_info, right_info |-> edge_info,
       bot_info |-> be, top_info |-> be,
       g_info |-> wire_info, d_info |-> wire_info, s_info |-> wire_info,
       m_info |-> << >>, shorted_ports |-> << >>]

(***************************************************************************)
(* Tap emitter: initial states and operation.                              *)
(***************************************************************************)
MaxTapSeg == 10

TechTap ==
  { [NominalTech EXCEPT !.sd_pitch = sd, !.lch = l, !.mp_po_extx = e] :
      sd \in {5, 6}, l \in {2, 3}, e \in {0, 1} }

InitTap == tech \in TechTap /\ call = NoCall

TapOptions ==
  { [guard_ring |-> "unset", sub_type |-> "unset"],
    [guard_ring |-> "True", sub_type |-> "ntap"] }

GetMosTapInfo ==
  \E specs \in RowSpecs({1}, 1..MaxWidth), conn_layer \in 1..MaxConnLayer,
     seg \in 1..MaxTapSeg, options \in TapOptions :
    /\ call = NoCall
    /\ is_substrate(specs.mos_type)
    /\ \E row_info \in {get_mos_row_info(tech, 1, specs)} :
         call' = [op |-> "get_mos_tap_info", row_info |-> row_info,
                  conn_layer |-> conn_layer, seg |-> seg, options |-> options,
                  ret |-> get_mos_tap_info(tech, row_info, conn_layer, seg,
                                           options)]
    /\ UNCHANGED tech

NextTap == GetMosTapInfo \/ Return

SpecTap == InitTap /\ [][NextTap]_vars

TapReturned == call.op = "get_mos_tap_info" /\ call.ret.raised = "none"

(***************************************************************************)
(* The gate-contact pattern of a tap: the local-interconnect rectangles    *)
(* and the gate vias of the layout, as the sets of x they occupy.          *)
(***************************************************************************)
TapItems == call.ret.lay_info.items

MpItems == { k \in 1..Len(TapItems) :
               TapItems[k].kind = "rect" /\ TapItems[k].lay = "MP" }

VgItems == { k \in 1..Len(TapItems) :
               TapItems[k].kind = "via" /\ TapItems[k].via_type = "M1_LiPo" }

\* x is covered by a copy of a local-interconnect rectangle
MpCovers(x) ==
  \E k \in MpItems : \E c \in 0..(TapItems[k].nx - 1) :
    /\ TapItems[k].box.xl + c * TapItems[k].spx <= x
    /\ x <= TapItems[k].box.xh + c * TapItems[k].spx

\* x is the centre of a gate via
VgAt(x) ==
  \E k \in VgItems : \E c \in 0..(TapItems[k].nx - 1) :
    x = TapItems[k].xc + c * TapItems[k].spx

\* the x range the pattern can reach, with room for an overshoot
TapXRange ==
  LET r == (2 * call.seg + 4) * tech.sd_pitch IN -r..r

\* mirror image about the block's centre x = seg*sd_pitch/2
Mirror(x) == call.seg * tech.sd_pitch - x

GateViasMirrorSymmetric == \A x \in TapXRange : VgAt(x) <=> VgAt(Mirror(x))

GateRectsMirrorSymmetric == \A x \in TapXRange : MpCovers(x) <=> MpCovers(Mirror(x))

\* a middle group of 2 or 4 fingers at pitch sd_pitch, alone or with two
\* half-arrays at pitch 2*sd_pitch
MiddleGroupPattern ==
  /\ Cardinality(VgItems) \in {1, 3}
  /\ \E k \in VgItems :
       /\ TapItems[k].nx \in {2, 4}
       /\ TapItems[k].spx = tech.sd_pitch
       /\ \A j \in VgItems \ {k} : TapItems[j].spx = 2 * tech.sd_pitch

\* one array at pitch 2*sd_pitch starting at x = 0
UniformPattern ==
  /\ Cardinality(VgItems) = 1
  /\ Cardinality(MpItems) = 1
  /\ \A k \in VgItems : TapItems[k].xc = 0 /\ TapItems[k].spx = 2 * tech.sd_pitch
  /\ \A k \in MpItems : TapItems[k].spx = 2 * tech.sd_pitch

(***************************************************************************)
(* C9: tap parity symmetry.  With an odd finger count seg + 1 the gate     *)
(* contacts (local-interconnect rectangles and gate vias) are mirror-      *)
(* symmetric about x = seg*sd_pitch/2 and made of a middle group of 2 or 4 *)
(* fingers plus two mirrored half-arrays; with an even seg + 1 they are    *)
(* one uniform array at pitch 2*sd_pitch starting at x = 0.                *)
(***************************************************************************)
TapParitySymmetry ==
  TapReturned =>
    IF (call.seg + 1) % 2 = 1
    THEN /\ GateViasMirrorSymmetric
         /\ GateRectsMirrorSymmetric
         /\ MiddleGroupPattern
    ELSE UniformPattern

\* the same with the parity taken over the gate lines, num_po = seg + 2, as
\* the branch of the source takes it
TapParitySymmetryByGateLines ==
  TapReturned =>
    IF (call.seg + 2) % 2 = 1
    THEN /\ GateViasMirrorSymmetric
         /\ GateRectsMirrorSymmetric
         /\ MiddleGroupPattern
    ELSE UniformPattern

\* what the layout does satisfy: the gate vias alone
TapGateViasSymmetric ==
  TapReturned =>
    /\ GateViasMirrorSymmetric
    /\ IF (call.seg + 2) % 2 = 1 THEN MiddleGroupPattern ELSE UniformPattern

\* the x coordinates of an array of contacts (first, count, pitch)
ContactXs(info) == { info[1] + k * info[3] : k \in 0..(info[2] - 1) }

\* the (first, count, pitch) of the arrays drawn on a layer / with a via type
RectArrays(ret, lay) ==
  { <<ret.lay_info.items[k].box.xl, ret.lay_info.items[k].nx,
      ret.lay_info.items[k].spx>> :
      k \in { j \in 1..Len(ret.lay_info.items) :
                /\ ret.lay_info.items[j].kind = "rect"
                /\ ret.lay_info.items[j].lay = lay } }

ViaArrays(ret, via_type) ==
  { <<ret.lay_info.items[k].xc, ret.lay_info.items[k].nx,
      ret.lay_info.items[k].spx>> :
      k \in { j \in 1..Len(ret.lay_info.items) :
                /\ ret.lay_info.items[j].kind = "via"
                /\ ret.lay_info.items[j].via_type = via_type } }

(***************************************************************************)
(* C12: get_mos_conn_info for seg segments of stack gates draws seg*stack  *)
(* gate lines at sd_pitch and reports (and draws vias for) source contacts *)
(* at the even and drain contacts at the odd multiples of stack*sd_pitch:  *)
(* the two sets are disjoint, num_s + num_d = seg + 1, and together they   *)
(* are every multiple of stack*sd_pitch from 0 to seg*stack*sd_pitch, each *)
(* once.                                                                   *)
(***************************************************************************)
SourceDrainAlternate ==
  ConnReturned =>
    LET wire_pitch == call.stack * tech.sd_pitch
        seg == call.seg
        S == ContactXs(call.ret.s_info)
        D == ContactXs(call.ret.d_info)
    IN  /\ \E po \in RectArrays(call.ret, "PO") :
             po[2] = seg * call.stack /\ po[3] = tech.sd_pitch
        /\ S = { k * wire_pitch : k \in { j \in 0..seg : j % 2 = 0 } }
        /\ D = { k * wire_pitch : k \in { j \in 0..seg : j % 2 = 1 } }
        /\ S \cap D = {}
        /\ call.ret.s_info[2] + call.ret.d_info[2] = seg + 1
        /\ Cardinality(S) = call.ret.s_info[2]
        /\ Cardinality(D) = call.ret.d_info[2]
        /\ S \cup D = { k * wire_pitch : k \in 0..seg }
        /\ call.ret.s_info \in ViaArrays(call.ret, "M1_LiAct")
        /\ call.ret.d_info \in ViaArrays(call.ret, "M1_LiAct")

SourceDrainAlternateWitness ==
  /\ ConnReturned
  /\ call.seg = MaxSeg
  /\ call.stack = MaxStack
  /\ call.ret.s_info[2] >= 2
  /\ call.ret.d_info[2] >= 2

(***************************************************************************)
(* Two device emissions over one row, the second with the contact band     *)
(* md_y of the row info made taller and everything else left as it is.     *)
(***************************************************************************)
MaxGrow == 4

InitBand == tech \in TechConn /\ call = NoCall

GetMosConnInfoTallerBand ==
  \E specs \in RowSpecs(1..MaxWidth, {1}), seg \in 1..MaxSeg,
     export_mid \in BOOLEAN, grow \in 1..MaxGrow :
    /\ call = NoCall
    /\ ~is_substrate(specs.mos_type)
    /\ \E row_info \in {get_mos_row_info(tech, 1, specs)} :
         \E taller \in {[row_info EXCEPT !.md_y = <<row_info.md_y[1],
                                                    row_info.md_y[2] + grow>>]} :
           call' = [op |-> "get_mos_conn_info", row_info |-> row_info,
                    taller_row_info |-> taller,
                    conn_layer |-> 1, seg |-> seg, w |-> specs.width,
                    stack |-> MaxStack, g_on_s |-> FALSE,
                    options |-> [export_mid |-> export_mid],
                    ret |-> get_mos_conn_info(tech, row_info, 1, seg, specs.width,
                                              MaxStack, FALSE,
                                              [export_mid |-> export_mid]),
                    taller_ret |-> get_mos_conn_info(tech, taller, 1, seg,
                                                     specs.width, MaxStack, FALSE,
                                                     [export_mid |-> export_mid])]
    /\ UNCHANGED tech

NextBand == GetMosConnInfoTallerBand \/ Return

SpecBand == InitBand /\ [][NextBand]_vars

\* the via counts of the drain/source vias of a returned layout
DsViaCounts(ret) ==
  { ret.lay_info.items[k].vny :
      k \in { j \in 1..Len(ret.lay_info.items) :
                /\ ret.lay_info.items[j].kind = "via"
                /\ ret.lay_info.items[j].via_type = "M1_LiAct" } }

(***************************************************************************)
(* C11: with the drain/source metal span and the via constants fixed, a    *)
(* taller contact band (md_yt - md_yb) never gives fewer drain/source vias *)
(* in get_mos_conn_info: every via count of the taller emission is at      *)
(* least every via count of the original one.                              *)
(***************************************************************************)
ViaCountMonotone ==
  ConnReturned =>
    /\ call.taller_ret.raised = "none"
    /\ DsViaCounts(call.ret) # {}
    /\ \A n \in DsViaCounts(call.ret) :
         \A m \in DsViaCounts(call.taller_ret) : m >= n

\* a taller band that does give more vias
ViaCountMonotoneWitness ==
  /\ ConnReturned
  /\ call.taller_row_info.md_y[2] > call.row_info.md_y[2]
  /\ call.taller_row_info.ds_conn_y = call.row_info.ds_conn_y
  /\ \E n \in DsViaCounts(call.ret) :
       \E m \in DsViaCounts(call.taller_ret) : m > n /\ n >= 1

(***************************************************************************)
(* C13: every operation that takes a connection layer signals an error and *)
(* returns no result for a connection layer other than 1.                  *)
(***************************************************************************)
OnlyConnLayerOne ==
  (call # NoCall /\ "conn_layer" \in DOMAIN call /\ call.conn_layer # 1)
    => call.ret.raised # "none"

(***************************************************************************)
(* Space block between two edges of a row.  An edge info is a dictionary   *)
(* that may be empty: a function whose domain is then the empty set.       *)
(***************************************************************************)
NoEdgeInfo == << >>

edge_has_od(info) == IF "has_od" \in DOMAIN info THEN info.has_od ELSE FALSE

\* the split point lies inside the window both enclosures leave
enclosure_ok_LeftOnly(xmid, imp_xmin, imp_xmax) == ~(xmid < imp_xmin)

enclosure_ok(xmid, imp_xmin, imp_xmax) == ~(xmid < imp_xmin \/ xmid > imp_xmax)

get_mos_space_info(t, row_info, num_cols, left_info, right_info) ==
  LET lch == t.lch
      sd_pitch == t.sd_pitch
      imp_od_encx == t.imp_od_encx
      blk_xr == num_cols * sd_pitch
      blk_yt == row_info.height
      bbox == BBox(0, 0, blk_xr, blk_yt)
      row_type == row_info.row_type
      threshold == row_info.threshold
      po_y == <<0, blk_yt>>
      od_extx == od_po_extx(t) - ((sd_pitch - lch) \div 2)
      left_od == edge_has_od(left_info)
      right_od == edge_has_od(right_info)
      po_start == IF left_od THEN 1 ELSE 0
      imp_xmin == IF left_od THEN od_extx + imp_od_encx ELSE 0
      po_stop == IF right_od THEN num_cols - 1 ELSE num_cols
      imp_xmax == IF right_od THEN blk_xr - od_extx - imp_od_encx ELSE blk_xr
      po_items ==
        (IF left_od THEN << add_po_array(t, "PO_PODE", po_y, 0, 1) >> ELSE << >>) \o
        (IF right_od
         THEN << add_po_array(t, "PO_PODE", po_y, num_cols - 1, num_cols) >>
         ELSE << >>) \o
        << add_po_array(t, "PO_DUMMY", po_y, po_start, po_stop), add_fb(t, bbox) >>
      has_left == DOMAIN left_info # {}
      has_right == DOMAIN right_info # {}
      typer == IF has_right THEN right_info.mos_type
               ELSE IF has_left THEN left_info.mos_type ELSE row_type
      typel == IF has_left THEN left_info.mos_type ELSE typer
      guard_ring == \/ is_substrate(typel) /\ typel # sub_type(row_type)
                    \/ is_substrate(typer) /\ typer # sub_type(row_type)
      wire_info == <<0, 0, 0>>
  IN  IF typel = typer
      THEN IF guard_ring THEN [raised |-> "ValueError"]
           ELSE LET be == [row_type |-> row_type, threshold |-> threshold,
                           guard_ring |-> FALSE,
                           fg_dev |-> << <<num_cols, typel>> >>]
                    edgel == [mos_type |-> typel, has_od |-> FALSE, is_sub |-> FALSE]
                IN  [raised |-> "none",
                     lay_info |-> get_info(
                        po_items \o << thres_imp_well_layers(row_type, typel,
                                                             threshold, bbox) >>,
                        bbox),
                     left_info |-> edgel, right_info |-> edgel,
                     bot_info |-> be, top_info |-> be,
                     g_info |-> wire_info, d_info |-> wire_info,
                     s_info |-> wire_info, shorted_ports |-> << >>]
      ELSE LET xmid == IF is_substrate(typel) /\
                           (~is_substrate(typer) \/ typel # sub_type(row_type))
                       THEN od_extx + imp_od_encx
                       ELSE blk_xr - od_extx - imp_od_encx
               rectl == BBox(0, 0, xmid, blk_yt)
               rectr == BBox(xmid, 0, blk_xr, blk_yt)
               fgl == xmid \div sd_pitch
               be == [row_type |-> row_type, threshold |-> threshold,
                      guard_ring |-> guard_ring,
                      fg_dev |-> << <<fgl, typel>>, <<num_cols - fgl, typer>> >>]
           IN  IF ~enclosure_ok(xmid, imp_xmin, imp_xmax)
               THEN [raised |-> "ODImplantEnclosureError"]
               ELSE [raised |-> "none",
                     lay_info |-> get_info(
                        po_items \o
                        << thres_imp_well_layers(row_type, typel, threshold, rectl),
                           thres_imp_well_layers(row_type, typer, threshold, rectr) >>,
                        bbox),
                     left_info |-> [mos_type |-> typel, has_od |-> FALSE,
                                    is_sub |-> FALSE],
                     right_info |-> [mos_type |-> typer, has_od |-> FALSE,
                                     is_sub |-> FALSE],
                     bot_info |-> be, top_info |-> be,
                     g_info |-> wire_info, d_info |-> wire_info,
                     s_info |-> wire_info, shorted_ports |-> << >>]

TechSpace ==
  { [NominalTech EXCEPT !.imp_od_encx = e, !.od_po_extx_constants = c] :
      e \in {1, 4, 7}, c \in {<<1, 1, 0>>, <<0, 0, 0>>} }

InitSpace == tech \in TechSpace /\ call = NoCall

EdgeInfos ==
  {NoEdgeInfo} \cup [mos_type : MOSTypes, has_od : BOOLEAN, is_sub : {FALSE}]

GetMosSpaceInfo ==
  \E specs \in RowSpecs({1}, {1}), num_cols \in 1..MaxCols,
     left_info \in EdgeInfos, right_info \in EdgeInfos :
    /\ call = NoCall
    /\ \E row_info \in {get_mos_row_info(tech, 1, specs)} :
         call' = [op |-> "get_mos_space_info", row_info |-> row_info,
                  num_cols |-> num_cols, left_info |-> left_info,
                  right_info |-> right_info,
                  ret |-> get_mos_space_info(tech, row_info, num_cols, left_info,
                                             right_info)]
    /\ UNCHANGED tech

NextSpace == GetMosSpaceInfo \/ Return

SpecSpace == InitSpace /\ [][NextSpace]_vars

SpaceReturned == call.op = "get_mos_space_info"

\* the two edges given are of different device types
SpaceTypesDiffer ==
  /\ DOMAIN call.left_info # {}
  /\ DOMAIN call.right_info # {}
  /\ call.left_info.mos_type # call.right_info.mos_type

\* the window the implant-to-active-area enclosures of the two sides leave
SpaceOdExtx == od_po_extx(tech) - ((tech.sd_pitch - tech.lch) \div 2)

SpaceImpXmin ==
  IF edge_has_od(call.left_info) THEN SpaceOdExtx + tech.imp_od_encx ELSE 0

SpaceImpXmax ==
  IF edge_has_od(call.right_info)
  THEN call.num_cols * tech.sd_pitch - SpaceOdExtx - tech.imp_od_encx
  ELSE call.num_cols * tech.sd_pitch

\* the implant rectangles of the returned layout
SpaceImpItems ==
  { k \in 1..Len(call.ret.lay_info.items) :
      call.ret.lay_info.items[k].kind = "imp" }

(***************************************************************************)
(* C14: for edges of different device types get_mos_space_info returns a   *)
(* layout only with the implant split at an xmid inside the window         *)
(* imp_xmin <= xmid <= imp_xmax (the left implant ends and the right one   *)
(* starts at xmid), and when the window is empty (imp_xmin > imp_xmax) it  *)
(* raises the enclosure error and returns no layout.                       *)
(***************************************************************************)
NoSilentEnclosureViolation ==
  (SpaceReturned /\ SpaceTypesDiffer) =>
    /\ call.ret.raised \in {"none", "ODImplantEnclosureError"}
    /\ call.ret.raised = "none" =>
         /\ Cardinality(SpaceImpItems) = 2
         /\ \E kl, kr \in SpaceImpItems :
              LET rectl == call.ret.lay_info.items[kl].box
                  rectr == call.ret.lay_info.items[kr].box
              IN  /\ kl < kr
                  /\ rectl.xl = 0
                  /\ rectl.xh = rectr.xl
                  /\ rectr.xh = call.num_cols * tech.sd_pitch
                  /\ SpaceImpXmin <= rectl.xh
                  /\ rectl.xh <= SpaceImpXmax
    /\ SpaceImpXmin > SpaceImpXmax =>
         /\ call.ret.raised = "ODImplantEnclosureError"
         /\ "lay_info" \notin DOMAIN call.ret

\* an empty window, rejected
NoSilentEnclosureViolationWitness ==
  /\ SpaceReturned
  /\ SpaceTypesDiffer
  /\ SpaceImpXmin > SpaceImpXmax
  /\ call.ret.raised = "ODImplantEnclosureError"

\* a layout returned with the split strictly inside a window of two has_od edges
SpaceSplitReturned ==
  /\ SpaceReturned
  /\ SpaceTypesDiffer
  /\ call.ret.raised = "none"
  /\ edge_has_od(call.left_info)
  /\ edge_has_od(call.right_info)
  /\ SpaceImpXmin < SpaceImpXmax

(***************************************************************************)
(* Dummy fill (fill/tech.py).  The technology constants of the fill are    *)
(* the 'fill' section of the configuration; od_density_min is a fraction,  *)
(* kept as <<numerator, denominator>>.                                     *)
(***************************************************************************)
NominalFill ==
  [mos_pitch |-> 4, fin_h |-> 2, lch |-> 2, po_od_exty |-> 1, po_spy |-> 2,
   sd_pitch |-> 4, od_spx |-> 2, od_density_min |-> <<1, 5>>,
   imp_od_encx |-> 1, imp_po_ency |-> 1, num_sd_min |-> 1, num_sd_max |-> 2,
   nfin_min |-> 2, nfin_max |-> 3, od_spy_max |-> 10]

get_od_w(num_sd, sd_pitch, lch) == num_sd * sd_pitch + lch

get_num_sd_RoundUp(w, sd_pitch, lch, round_up) ==
  LET q == (w - lch) \div sd_pitch
      r == (w - lch) % sd_pitch
  IN  q + (IF r # 0 THEN 1 ELSE 0)

get_num_sd(w, sd_pitch, lch, round_up) ==
  LET q == (w - lch) \div sd_pitch
      r == (w - lch) % sd_pitch
  IN  q + (IF round_up /\ r # 0 THEN 1 ELSE 0)

get_fin_num(y, fin_p, round_up) ==
  LET q == (y - (fin_p \div 2)) \div fin_p
      r == (y - (fin_p \div 2)) % fin_p
  IN  q + (IF round_up /\ r # 0 THEN 1 ELSE 0)

(***************************************************************************)
(* The fill solvers of the layout library are called, not defined, by this *)
(* code.  A solver handed an area of so many units answers with a list of  *)
(* blocks <<start, stop>> inside 0..area, each n_min..n_max units long and *)
(* at least sp_min units apart; which list is the solver's choice, and the *)
(* list is empty when not even one block fits.                             *)
(***************************************************************************)
RECURSIVE FillsFrom(_, _, _, _, _)
FillsFrom(pos, area, n_min, n_max, sp_min) ==
  {<< >>} \cup
  UNION { UNION { { << <<a, b>> >> \o rest :
                      rest \in FillsFrom(b + Max2(sp_min, 1), area, n_min, n_max,
                                         sp_min) } :
                  b \in (a + Max2(n_min, 0))..Min2(a + n_max, area) } :
          a \in pos..area }

fill_symmetric_info(area, n_min, n_max, sp_min) ==
  FillsFrom(0, area, n_min, n_max, sp_min)

\* FillInfo.get_fill_area: every block counts its units times scale plus extend
get_fill_area(info, scale, extend) ==
  LET RECURSIVE Sum(_)
      Sum(k) == IF k = 0 THEN 0
                ELSE Sum(k - 1) + (info[k][2] - info[k][1]) * scale + extend
  IN  Sum(Len(info))

fill_symmetric_interval(info, d0, d1, scale) ==
  [k \in 1..Len(info) |-> <<d0 + info[k][1] * scale, d1 + info[k][2] * scale>>]

\* the x intervals of the dummies of one row and their density, a fraction
\* <<filled width, blk_w>>; one outcome per answer of the solver
get_od_x_list_OverFillW(cfg, blk_w, fill_xl, fill_xh, sd_pitch, lch, od_spx) ==
  LET fill_w == fill_xh - fill_xl
      num_sd_tot == get_num_sd(fill_w, sd_pitch, lch, FALSE)
      row_w == get_od_w(num_sd_tot, sd_pitch, lch)
      row_xl == (fill_xl + fill_xh - row_w) \div 2
  IN  IF fill_w < get_od_w(cfg.num_sd_min, sd_pitch, lch)
      THEN { [od_x_list |-> << >>, od_x_density |-> <<0, 1>>] }
      ELSE { [od_x_list |-> << <<row_xl, row_xl + row_w>> >>,
              od_x_density |-> <<row_w, fill_w>>] }

get_od_x_list_NoNarrowTest(cfg, blk_w, fill_xl, fill_xh, sd_pitch, lch, od_spx) ==
  LET fill_w == fill_xh - fill_xl
      num_sd_tot == get_num_sd(fill_w, sd_pitch, lch, FALSE)
      row_w == get_od_w(num_sd_tot, sd_pitch, lch)
      row_xl == (fill_xl + fill_xh - row_w) \div 2
  IN  { [od_x_list |-> << <<row_xl, row_xl + row_w>> >>,
         od_x_density |-> <<Max2(row_w, 1), blk_w>>] }

get_od_x_list(cfg, blk_w, fill_xl, fill_xh, sd_pitch, lch, od_spx) ==
  LET num_sd_min == cfg.num_sd_min
      num_sd_max == cfg.num_sd_max
      fill_w == fill_xh - fill_xl
      dum_spx == Max2(od_spx, sd_pitch - lch)
      num_sd_sep == CeilDiv(dum_spx + lch, sd_pitch)
      od_w_min == get_od_w(num_sd_min, sd_pitch, lch)
      num_sd_tot == get_num_sd(fill_w, sd_pitch, lch, FALSE)
      row_w == get_od_w(num_sd_tot, sd_pitch, lch)
      row_xl == (fill_xl + fill_xh - row_w) \div 2
  IN  IF fill_w < od_w_min
      THEN { [od_x_list |-> << >>, od_x_density |-> <<0, 1>>] }
      ELSE IF num_sd_tot <= num_sd_max
      THEN { [od_x_list |-> << <<row_xl, row_xl + row_w>> >>,
              od_x_density |-> <<row_w, blk_w>>] }
      ELSE { [od_x_list |-> fill_symmetric_interval(info, row_xl, row_xl + lch,
                                                    sd_pitch),
              od_x_density |-> <<get_fill_area(info, sd_pitch, lch), blk_w>>] :
               info \in fill_symmetric_info(num_sd_tot, num_sd_min, num_sd_max,
                                            num_sd_sep) }

\* int(ceil(blk_h * od_y_density)) in floating point: the exact ceiling, or
\* one more when the exact product is an integer and the float lands above it
area_target(blk_h, od_y_density) ==
  LET num == blk_h * od_y_density[1]
      den == od_y_density[2]
  IN  {CeilDiv(num, den)} \cup (IF num % den = 0 THEN {(num \div den) + 1} ELSE {})

\* the y intervals of the dummies, with the request made to the solver
get_od_y_list(cfg, blk_h, yl, yh, fin_p, fin_height, od_y_density) ==
  LET po_od_exty == cfg.po_od_exty
      po_spy == cfg.po_spy
      nfin_min == cfg.nfin_min
      nfin_max == cfg.nfin_max
      od_spy_max == cfg.od_spy_max
      fin_h2 == fin_height \div 2
      fin_sep_min == CeilDiv(fin_height + po_spy + 2 * po_od_exty, fin_p)
      fin_sep_max == (od_spy_max + fin_height) \div fin_p
      fin_start == get_fin_num(yl + po_od_exty + fin_h2, fin_p, TRUE)
      fin_stop == get_fin_num(yh - po_od_exty - fin_h2, fin_p, FALSE)
      fin_area == fin_stop - fin_start
      d0 == fin_p * fin_start + ((fin_p - fin_height) \div 2)
      d1 == fin_p * fin_start + ((fin_p + fin_height) \div 2)
  IN  { [od_y_list |-> fill_symmetric_interval(info, d0, d1, fin_p),
         request |-> [area |-> fin_area, n_min |-> nfin_min - 1,
                      n_max |-> nfin_max - 1, sp_min |-> fin_sep_min,
                      sp_max |-> fin_sep_max, target |-> target,
                      filled |-> get_fill_area(info, fin_p, fin_height)]] :
          info \in fill_symmetric_info(fin_area, nfin_min - 1, nfin_max - 1,
                                       fin_sep_min),
          target \in area_target(blk_h, od_y_density) }

edge_delta(e) == IF "delta" \in DOMAIN e THEN e.delta ELSE 0

\* the dummy active-area rectangles and dummy gate lines over them, in the
\* order they are drawn: rows bottom to top, the dummies of a row left to right
fill_rects(cfg, od_x_list, od_y_list, fill_yl, fill_yh) ==
  LET nx == Len(od_x_list)
      ny == Len(od_y_list)
  IN  [i \in 1..(2 * nx * ny) |->
         LET idx == ((i - 1) \div (2 * nx)) + 1
             xi == (((i - 1) % (2 * nx)) \div 2) + 1
             od_yb == od_y_list[idx][1]
             od_yt == od_y_list[idx][2]
             od_xl == od_x_list[xi][1]
             od_xr == od_x_list[xi][2]
             po_yb == IF idx = 1 THEN fill_yl ELSE od_yb - cfg.po_od_exty
             po_yt == IF idx = ny THEN fill_yh ELSE od_yt + cfg.po_od_exty
         IN  IF i % 2 = 1
             THEN add_rect_arr("OD_DUMMY", BBox(od_xl, od_yb, od_xr, od_yt), 1, 0)
             ELSE add_rect_arr("PO_DUMMY",
                               BBox(od_xl, po_yb, od_xl + cfg.lch, po_yt),
                               1 + ((od_xr - od_xl - cfg.lch) \div cfg.sd_pitch),
                               cfg.sd_pitch)]

\* the outcomes of get_fill_info, one per answer of the solvers; min_density
\* is the request made to the min-density solver, if one was made
get_fill_info(cfg, mos_type, threshold, w, h, el, eb, er, et) ==
  LET fin_p == cfg.mos_pitch
      lch == cfg.lch
      sd_pitch == cfg.sd_pitch
      od_spx == cfg.od_spx
      od_density_min == cfg.od_density_min
      fin_p2 == fin_p \div 2
      fin_h2 == cfg.fin_h \div 2
      od_edge_margin == Max2(cfg.imp_od_encx, od_spx \div 2)
      po_edge_margin == Max2(cfg.imp_po_ency, cfg.po_spy \div 2)
      bnd_xl == edge_delta(el)
      bnd_xr == w - edge_delta(er)
      bnd_yb == edge_delta(eb)
      bnd_yt == h - edge_delta(et)
      bbox == BBox(bnd_xl, bnd_yb, bnd_xr, bnd_yt)
      fill_xl == bnd_xl + od_edge_margin
      fill_xh == bnd_xr - od_edge_margin
      fill_yl == bnd_yb + po_edge_margin
      fill_yh == bnd_yt - po_edge_margin
      fin_yb == (((bnd_yb - fin_p2 + fin_h2) \div fin_p) * fin_p) + fin_p2 - fin_h2
      fin_yt == (CeilDiv(bnd_yt - fin_p2 - fin_h2, fin_p) * fin_p) + fin_p2 + fin_h2
      others == << thres_imp_well_layers(mos_type, mos_type, threshold, bbox),
                   add_rect_arr("FB", BBox(bnd_xl, fin_yb, bnd_xr, fin_yt), 1, 0) >>
  IN  UNION {
        IF Len(x.od_x_list) = 0
        THEN { [raised |-> "none", lay_info |-> get_info(<< >>, bbox),
                min_density |-> << >>] }
        ELSE IF x.od_x_density[1] = 0
        THEN { [raised |-> "ZeroDivisionError"] }
        ELSE { IF Len(y.od_y_list) = 0
               THEN [raised |-> "none", lay_info |-> get_info(<< >>, bbox),
                     min_density |-> << y.request >>]
               ELSE [raised |-> "none",
                     lay_info |-> get_info(
                        fill_rects(cfg, x.od_x_list, y.od_y_list, fill_yl, fill_yh)
                          \o others, bbox),
                     min_density |-> << y.request >>] :
                 y \in get_od_y_list(cfg, h, fill_yl, fill_yh, fin_p, cfg.fin_h,
                          <<od_density_min[1] * x.od_x_density[2],
                            od_density_min[2] * x.od_x_density[1]>>) } :
        x \in get_od_x_list(cfg, w, fill_xl, fill_xh, sd_pitch, lch, od_spx) }

MaxFillW == 20
MaxFillH == 26

TechFill ==
  { [NominalFill EXCEPT !.od_density_min = d, !.num_sd_max = m] :
      d \in {<<1, 5>>, <<1, 2>>}, m \in {2, 3} }

InitFill == tech \in TechFill /\ call = NoCall

FillEdges == { << >>, [delta |-> 1] }

GetFillInfo ==
  \E w \in 1..MaxFillW, h \in 1..MaxFillH, el \in FillEdges, eb \in FillEdges :
    /\ call = NoCall
    /\ \E ret \in get_fill_info(tech, "nch", "standard", w, h, el, eb,
                                << >>, << >>) :
         call' = [op |-> "get_fill_info", mos_type |-> "nch",
                  threshold |-> "standard", w |-> w, h |-> h,
                  el |-> el, eb |-> eb, er |-> << >>, et |-> << >>, ret |-> ret]
    /\ UNCHANGED tech

NextFill == GetFillInfo \/ Return

SpecFill == InitFill /\ [][NextFill]_vars

FillReturned == call.op = "get_fill_info"

\* the dummy active-area rectangles of the returned layout: the x intervals
\* and the y intervals they occupy, and the total length of a set of intervals
FillOdBoxes ==
  { call.ret.lay_info.items[k].box :
      k \in { j \in 1..Len(call.ret.lay_info.items) :
                /\ call.ret.lay_info.items[j].kind = "rect"
                /\ call.ret.lay_info.items[j].lay = "OD_DUMMY" } }

FillOdX == { <<b.xl, b.xh>> : b \in FillOdBoxes }

FillOdY == { <<b.yl, b.yh>> : b \in FillOdBoxes }

RECURSIVE TotalLength(_)
TotalLength(S) ==
  IF S = {} THEN 0
  ELSE LET i == CHOOSE j \in S : TRUE
       IN  (i[2] - i[1]) + TotalLength(S \ {i})

\* the min-density solver was asked and filled at least the area it was asked for
SolverMetTarget ==
  /\ Len(call.ret.min_density) = 1
  /\ call.ret.min_density[1].filled >= call.ret.min_density[1].target

(***************************************************************************)
(* C15: whenever get_fill_info emits dummy active rectangles and the       *)
(* min-density solver has met the area target it was handed, the achieved  *)
(* x-density (dummy width of a row over w) times the achieved y-density    *)
(* (dummy height of a column over h) is at least od_density_min:           *)
(* width * height * den >= num * w * h for od_density_min = num/den.       *)
(***************************************************************************)
DensityLowerBound ==
  (FillReturned /\ call.ret.raised = "none" /\ FillOdBoxes # {} /\ SolverMetTarget)
    => TotalLength(FillOdX) * TotalLength(FillOdY) * tech.od_density_min[2]
         >= tech.od_density_min[1] * call.w * call.h

\* several dummies per row and per column, the target met
DensityLowerBoundWitness ==
  /\ FillReturned
  /\ call.ret.raised = "none"
  /\ Cardinality(FillOdX) >= 2
  /\ Cardinality(FillOdY) >= 2
  /\ SolverMetTarget
  /\ call.ret.min_density[1].target > 0

\* the fill-eligible width and the number of fins between the inward-rounded
\* fin bounds of the region handed to get_fill_info
FillEligibleW ==
  (call.w - edge_delta(call.er)) - edge_delta(call.el)
    - 2 * Max2(tech.imp_od_encx, tech.od_spx \div 2)

FillEligibleFins ==
  LET po_edge_margin == Max2(tech.imp_po_ency, tech.po_spy \div 2)
      yl == edge_delta(call.eb) + po_edge_margin
      yh == (call.h - edge_delta(call.et)) - po_edge_margin
      inset == tech.po_od_exty + (tech.fin_h \div 2)
  IN  get_fin_num(yh - inset, tech.mos_pitch, FALSE)
        - get_fin_num(yl + inset, tech.mos_pitch, TRUE) + 1

FillTooNarrow == FillEligibleW < tech.num_sd_min * tech.sd_pitch + tech.lch

FillTooShort == FillEligibleFins < tech.nfin_min

(***************************************************************************)
(* C16: get_fill_info raises nothing and returns a layout with no          *)
(* rectangles, the bounding box only, whenever the fill-eligible width is  *)
(* below the minimum dummy width num_sd_min*sd_pitch + lch, and whenever   *)
(* fewer than nfin_min fins lie between the inward-rounded fin bounds.     *)
(***************************************************************************)
SmallRegionsLeftEmpty ==
  (FillReturned /\ (FillTooNarrow \/ FillTooShort)) =>
    /\ call.ret.raised = "none"
    /\ call.ret.lay_info.items = << >>
    /\ call.ret.lay_info.bbox =
         BBox(edge_delta(call.el), edge_delta(call.eb),
              call.w - edge_delta(call.er), call.h - edge_delta(call.et))

\* wide enough for a dummy but too short for one
SmallRegionsLeftEmptyWitness ==
  /\ FillReturned
  /\ ~FillTooNarrow
  /\ FillTooShort
  /\ call.ret.raised = "none"
  /\ call.ret.lay_info.items = << >>

\* too narrow for a dummy, tall enough for one
NarrowRegionLeftEmpty ==
  /\ FillReturned
  /\ FillTooNarrow
  /\ ~FillTooShort
  /\ call.ret.lay_info.items = << >>

\* the dimensions a row info reports: the heights of the row and of its
\* bands, the offset of the gate band, and the distances (margins) from the
\* active area, the contact band and the first-metal wires to the row edges
RowDimensions ==
  { call.ret.height,
    call.ret.od_yb,
    call.ret.md_y[2] - call.ret.md_y[1],
    call.ret.mp_y[1],
    call.ret.mp_y[2] - call.ret.mp_y[1],
    call.ret.po_y[2] - call.ret.po_y[1],
    call.ret.top_einfo.margins.od[1], call.ret.bot_einfo.margins.od[1],
    call.ret.top_einfo.margins.md[1], call.ret.bot_einfo.margins.md[1],
    call.ret.top_einfo.margins.m1[1], call.ret.bot_einfo.margins.m1[1] }

(***************************************************************************)
(* C17: get_mos_row_info never returns a row info containing a negative    *)
(* dimension; constants that make one negative end in an error and no row  *)
(* info.                                                                   *)
(***************************************************************************)
NoNegativeRowDimension ==
  (call.op = "get_mos_row_info" /\ call.conn_layer = 1) =>
    \/ call.ret.raised # "none"
    \/ \A d \in RowDimensions : d >= 0

(***************************************************************************)
(* Active-area height: initial states and operation.  The technologies are *)
(* those of the grid quantizer and one with a fin pitch of 84 and a fin    *)
(* height of 108.                                                          *)
(***************************************************************************)
MaxOdWidth == 6

TechOdHeight ==
  TechGrid \cup { [NominalTech EXCEPT !.fin_p = 84, !.fin_h = 108] }

InitOdHeight == tech \in TechOdHeight /\ call = NoCall

GetOdHeight ==
  \E w \in 1..MaxOdWidth :
    /\ call = NoCall
    /\ call' = [op |-> "get_od_height", w |-> w, ret |-> get_od_height(tech, w)]
    /\ UNCHANGED tech

NextOdHeight == GetOdHeight \/ Return

SpecOdHeight == InitOdHeight /\ [][NextOdHeight]_vars

(***************************************************************************)
(* C18: for every width w >= 1, get_od_height(w) = fin_p*(w-1) + fin_h;    *)
(* w = 1 gives exactly fin_h, and fin_p = 84, fin_h = 108, w = 4 give 360. *)
(***************************************************************************)
OdHeightFormula ==
  call.op = "get_od_height" =>
    /\ call.ret = tech.fin_p * (call.w - 1) + tech.fin_h
    /\ call.w = 1 => call.ret = tech.fin_h
    /\ (tech.fin_p = 84 /\ tech.fin_h = 108 /\ call.w = 4) => call.ret = 360

OdHeightFormulaWitness ==
  /\ call.op = "get_od_height"
  /\ tech.fin_p = 84
  /\ tech.fin_h = 108
  /\ call.w = 4
  /\ call.ret = 360

(***************************************************************************)
(* Concurrent synthesis.  Several workers invoke the operations at the     *)
(* same time on one technology object (the mos and the fill constants).    *)
(* Every invocation creates its own LayoutInfoBuilder and adds to it item  *)
(* by item, reading the constants as it goes; in this specification call   *)
(* holds, for every worker, the invocation it is serving.                  *)
(***************************************************************************)
MaxWorkers == 2

Workers == 1..MaxWorkers

IdleWorker == [pc |-> "idle", builder |-> << >>]

TechShared == { [mos |-> NominalTech, fill |-> NominalFill] }

\* the invocations the workers choose from
SharedCalls ==
  { [op |-> "get_mos_row_info",
     specs |-> [mos_type |-> "nch", width |-> 2, sub_width |-> 1,
                threshold |-> "standard", flip |-> FALSE, guard_ring |-> FALSE]],
    [op |-> "get_mos_conn_info",
     specs |-> [mos_type |-> "pch", width |-> 1, sub_width |-> 1,
                threshold |-> "standard", flip |-> FALSE, guard_ring |-> FALSE]],
    [op |-> "get_mos_tap_info",
     specs |-> [mos_type |-> "ptap", width |-> 1, sub_width |-> 2,
                threshold |-> "standard", flip |-> FALSE, guard_ring |-> FALSE]],
    [op |-> "get_mos_ext_info",
     bot_einfo |-> [row_type |-> "nch", threshold |-> "standard"],
     top_einfo |-> [row_type |-> "pch", threshold |-> "fast"]],
    [op |-> "get_fill_info", w |-> 10, h |-> 14] }

\* what an invocation returns on the constants t; the fill solver is a
\* function of its arguments, so one of its possible answers is fixed
invocation_result(t, inv) ==
  CASE inv.op = "get_mos_row_info" -> get_mos_row_info(t.mos, 1, inv.specs)
    [] inv.op = "get_mos_conn_info" ->
         get_mos_conn_info(t.mos, get_mos_row_info(t.mos, 1, inv.specs), 1,
                           MaxSeg, inv.specs.width, 1, FALSE,
                           [export_mid |-> FALSE])
    [] inv.op = "get_mos_tap_info" ->
         get_mos_tap_info(t.mos, get_mos_row_info(t.mos, 1, inv.specs), 1,
                          MaxSeg, [guard_ring |-> "unset", sub_type |-> "unset"])
    [] inv.op = "get_mos_ext_info" ->
         get_mos_ext_info(t.mos, 1, t.mos.fin_p, inv.bot_einfo, inv.top_einfo)
    [] inv.op = "get_fill_info" ->
         CHOOSE r \in get_fill_info(t.fill, "nch", "standard", inv.w, inv.h,
                                    << >>, << >>, << >>, << >>) :
           \A q \in get_fill_info(t.fill, "nch", "standard", inv.w, inv.h,
                                  << >>, << >>, << >>, << >>) :
             Len(q.lay_info.items) <= Len(r.lay_info.items)

\* the items an invocation adds to its builder
invocation_items(r) ==
  IF "lay_info" \in DOMAIN r THEN r.lay_info.items ELSE << >>

\* the builder a worker adds to: the one its invocation created
builder_owner_Shared(w) == 1

builder_owner(w) == w

InitShared == tech \in TechShared /\ call = [w \in Workers |-> IdleWorker]

\* a worker starts an invocation: it creates its builder and reads the
\* constants into its locals, which fixes the items it is going to draw
Invoke(w) ==
  /\ call[w].pc = "idle"
  /\ \E inv \in SharedCalls :
       \E r \in {invocation_result(tech, inv)} :
         call' = [call EXCEPT ![w] = [pc |-> "building", inv |-> inv,
                                      builder |-> << >>, shared |-> tech,
                                      locals |-> r, interleaved |-> FALSE]]
  /\ UNCHANGED tech

\* the invocation adds its next layout item to its builder
AddItem(w) ==
  /\ call[w].pc = "building"
  /\ LET items == invocation_items(call[w].locals)
         b == builder_owner(w)
         k == Len(call[b].builder) + 1
     IN  /\ k <= Len(items)
         /\ call' = [call EXCEPT
                       ![b].builder = Append(@, items[k]),
                       ![w].interleaved =
                          @ \/ \E o \in Workers \ {w} :
                                 /\ call[o].pc = "building"
                                 /\ call[o].builder # << >>]
  /\ UNCHANGED tech

\* the invocation returns what it computed, its layout taken from its builder
Finish(w) ==
  /\ call[w].pc = "building"
  /\ Len(call[builder_owner(w)].builder) >= Len(invocation_items(call[w].locals))
  /\ call' = [call EXCEPT
                ![w] = [pc |-> "returned", inv |-> call[w].inv,
                        builder |-> call[w].builder, shared |-> call[w].shared,
                        interleaved |-> call[w].interleaved,
                        ret |-> IF "lay_info" \in DOMAIN call[w].locals
                                THEN [call[w].locals EXCEPT !.lay_info.items =
                                        call[builder_owner(w)].builder]
                                ELSE call[w].locals]]
  /\ UNCHANGED tech

\* the caller takes the result
Collect(w) ==
  /\ call[w].pc = "returned"
  /\ call' = [call EXCEPT ![w] = IdleWorker]
  /\ UNCHANGED tech

NextShared ==
  \E w \in Workers : Invoke(w) \/ AddItem(w) \/ Finish(w) \/ Collect(w)

SpecShared == InitShared /\ [][NextShared]_vars

(***************************************************************************)
(* C19: in every interleaving of concurrent invocations that share only    *)
(* the technology constants and own their builders, the constants are      *)
(* still what they were when the invocation started and every invocation   *)
(* that has returned holds exactly the result of the same invocation run   *)
(* alone on the same inputs.                                               *)
(***************************************************************************)
ConcurrentUseSafe ==
  \A w \in Workers :
    call[w].pc = "returned" =>
      /\ tech = call[w].shared
      /\ call[w].ret = invocation_result(call[w].shared, call[w].inv)

\* two layouts built item by item in turns, both returned
ConcurrentUseSafeWitness ==
  \E w \in Workers : \E o \in Workers \ {w} :
    /\ call[w].pc = "returned"
    /\ call[o].pc = "returned"
    /\ call[w].interleaved
    /\ call[o].interleaved
    /\ call[w].inv.op # call[o].inv.op
    /\ Len(invocation_items(call[w].ret)) > 1

\* the lowest the row builder places the bottom of the gate contact band:
\* half the band spacing, or the band-to-marker spacing above the top of the
\* bottom boundary marker
GateBandFloor ==
  LET cpo_bot_yb == 0 - (tech.cpo_h \div 2)
      cpo_bot_yt == cpo_bot_yb + tech.cpo_h
  IN  Max2(tech.mp_spy \div 2, cpo_bot_yt + tech.mp_cpo_spy)

(***************************************************************************)
(* C20: the gate contact band mp_y a row info reports, recomputed from the *)
(* drain/source metal by get_conn_yloc_info, keeps the placement rule of   *)
(* the row builder: its bottom edge is at or above max(mp_spy//2, top of   *)
(* the bottom boundary marker + mp_cpo_spy).                               *)
(***************************************************************************)
GateBandAboveMarker ==
  RowReturned => call.ret.mp_y[1] >= GateBandFloor

(***************************************************************************)
(* Row placement together with the quantizer it relies on: the same        *)
(* technology object serves get_mos_row_info and snap_od_edge.             *)
(***************************************************************************)
NextSnap == GetMosRowInfo \/ SnapOdEdge \/ Return

SpecSnap == InitRow /\ [][NextSnap]_vars

\* lowest active-area bottom edge the spacing rules allow for the row served:
\* top of the gate first-metal wire, plus the line-end spacing, plus half of
\* what the drain wire is longer than the active area
PreSnapOdYb ==
  LET t == tech
      od_h == get_od_height(t, call.specs.width)
      md_h == Max2(od_h + 2 * t.md_od_exty, t.md_h_min)
      g_conn_info == get_conn_info(t, call.conn_layer, TRUE)
      d_conn_info == get_conn_info(t, call.conn_layer, FALSE)
      d_m1_h == Max2(md_h, d_conn_info.len_min)
      cpo_bot_yt == t.cpo_h - (t.cpo_h \div 2)
      mp_yb == Max2(t.mp_spy \div 2, cpo_bot_yt + t.mp_cpo_spy)
      mp_yc == (mp_yb + t.mp_h + mp_yb) \div 2
      g_m1_yt == mp_yc + (g_conn_info.via_w \div 2) + g_conn_info.via_top_enc
  IN  g_m1_yt + g_conn_info.sp_le + ((d_m1_h - od_h) \div 2)

\* C21: the active-area bottom edge of every row is at or above the pre-snap
\* minimum and less than one fin pitch above it; snap_od_edge with
\* round_up = True never returns a value below its input, and with
\* round_up = False never a value above it.
OdEdgeSnappedUp ==
  /\ RowReturned =>
       /\ call.ret.od_yb >= PreSnapOdYb
       /\ call.ret.od_yb - PreSnapOdYb < tech.fin_p
  /\ call.op = "snap_od_edge" =>
       /\ call.round_up => call.ret >= call.y
       /\ ~call.round_up => call.ret <= call.y

\* a row whose pre-snap edge was off the fin grid and was moved up
OdEdgeSnappedUpWitness ==
  /\ RowReturned
  /\ call.ret.od_yb > PreSnapOdYb
  /\ call.ret.od_yb - PreSnapOdYb = tech.fin_p - 1

(***************************************************************************)
(* Contact band of a row, over both parities of the active-area height and *)
(* of the minimum band height, and over several enclosure values.          *)
(***************************************************************************)
TechContact ==
  { [NominalTech EXCEPT !.fin_p = p, !.fin_h = h, !.md_od_exty = e,
                        !.md_h_min = mm, !.d_len_min = dl] :
      p \in FinPSet, h \in FinHSet, e \in 0..2, mm \in {2, 5, 8, 9},
      dl \in {3, 10} }

InitContact == tech \in TechContact /\ call = NoCall

NextContact == GetMosRowInfo \/ Return

SpecContact == InitContact /\ [][NextContact]_vars

\* top edge of the active area of the row served, read off the top margin
RowOdYt == call.ret.height - call.ret.top_einfo.margins.od[1]

\* C22: the contact band of every row has height
\* max(od_h + 2*md_od_exty, md_h_min), its centre is within one grid unit of
\* the centre of the active area, and it extends at least md_od_exty beyond
\* the active area at the bottom and at the top.
ContactBandEnclosesOd ==
  RowReturned =>
    LET od_yb == call.ret.od_yb
        od_yt == RowOdYt
        md_yb == call.ret.md_y[1]
        md_yt == call.ret.md_y[2]
        twice == (md_yb + md_yt) - (od_yb + od_yt)
    IN  /\ od_yt - od_yb = get_od_height(tech, call.specs.width)
        /\ md_yt - md_yb = Max2((od_yt - od_yb) + 2 * tech.md_od_exty,
                                tech.md_h_min)
        /\ twice >= -2 /\ twice <= 2
        /\ md_yb <= od_yb - tech.md_od_exty
        /\ md_yt >= od_yt + tech.md_od_exty

\* a row with an odd active-area height whose band is set by the even minimum
\* band height, so that the two centres cannot coincide
ContactBandEnclosesOdWitness ==
  /\ RowReturned
  /\ (RowOdYt - call.ret.od_yb) % 2 = 1
  /\ tech.md_h_min % 2 = 0
  /\ call.ret.md_y[2] - call.ret.md_y[1] = tech.md_h_min
  /\ tech.md_h_min > (RowOdYt - call.ret.od_yb) + 2 * tech.md_od_exty
  /\ tech.md_od_exty > 0

\* C23: whenever the two edge device types differ and some split point x with
\* imp_xmin <= x <= imp_xmax exists, get_mos_space_info returns a layout whose
\* implant split lies in that window, and does not raise the enclosure error.
EnclosureErrorOnlyWhenInfeasible ==
  (SpaceReturned /\ SpaceTypesDiffer /\ SpaceImpXmin <= SpaceImpXmax) =>
    /\ call.ret.raised = "none"
    /\ \E k \in SpaceImpItems :
         /\ call.ret.lay_info.items[k].box.xl = 0
         /\ SpaceImpXmin <= call.ret.lay_info.items[k].box.xh
         /\ call.ret.lay_info.items[k].box.xh <= SpaceImpXmax

\* the gate lines drawn, as (left edge, right edge) pairs in drawing order
ConnGateEdges ==
  LET po == CHOOSE a \in RectArrays(call.ret, "PO") : TRUE
  IN  [j \in 0..(po[2] - 1) |->
         <<po[1] + j * po[3], po[1] + j * po[3] + tech.lch>>]

MaxBlkW == 14

TechOdX ==
  { [NominalFill EXCEPT !.sd_pitch = sp, !.lch = l, !.num_sd_min = n0,
                        !.num_sd_max = n1] :
      sp \in {3, 4}, l \in {1, 2}, n0 \in {1, 2}, n1 \in {2, 3} }

InitOdX == tech \in TechOdX /\ call = NoCall

GetOdXList ==
  \E blk_w \in 1..MaxBlkW :
    \E fill_xl \in 0..blk_w, fill_xh \in 0..blk_w :
      /\ call = NoCall
      /\ \E ret \in get_od_x_list(tech, blk_w, fill_xl, fill_xh, tech.sd_pitch,
                                  tech.lch, tech.od_spx) :
           call' = [op |-> "_get_od_x_list", blk_w |-> blk_w,
                    fill_xl |-> fill_xl, fill_xh |-> fill_xh, ret |-> ret]
      /\ UNCHANGED tech

NextOdX == GetOdXList \/ Return

SpecOdX == InitOdX /\ [][NextOdX]_vars

\* the largest number of gate pitches whose dummy fits in a width
LargestNumSd(width) ==
  CHOOSE n \in 0..width :
    /\ n * tech.sd_pitch + tech.lch <= width
    /\ (n + 1) * tech.sd_pitch + tech.lch > width

\* the fill-eligible width holds at least num_sd_min and at most num_sd_max
\* gate pitches
SingleDummyCase ==
  /\ call.op = "_get_od_x_list"
  /\ call.fill_xh - call.fill_xl >= tech.lch
  /\ LargestNumSd(call.fill_xh - call.fill_xl) >= tech.num_sd_min
  /\ LargestNumSd(call.fill_xh - call.fill_xl) <= tech.num_sd_max

\* C25: in the single-dummy case _get_od_x_list returns exactly one interval,
\* of width n*sd_pitch + lch with n the largest count that fits the
\* fill-eligible width, lying inside [fill_xl, fill_xh] with its centre within
\* one grid unit of the centre of that range, and reports the density
\* width / blk_w.
SingleDummyCentred ==
  SingleDummyCase =>
    LET l == call.ret.od_x_list
        n == LargestNumSd(call.fill_xh - call.fill_xl)
        od_w == n * tech.sd_pitch + tech.lch
    IN  /\ Len(l) = 1
        /\ l[1][2] - l[1][1] = od_w
        /\ call.fill_xl <= l[1][1]
        /\ l[1][2] <= call.fill_xh
        /\ (l[1][1] + l[1][2]) - (call.fill_xl + call.fill_xh) \in -2..2
        /\ call.ret.od_x_density = <<od_w, call.blk_w>>

\* a single dummy of two gate pitches that cannot be centred exactly
SingleDummyCentredWitness ==
  /\ SingleDummyCase
  /\ LargestNumSd(call.fill_xh - call.fill_xl) = 2
  /\ Len(call.ret.od_x_list) = 1
  /\ (call.fill_xh - call.fill_xl - (2 * tech.sd_pitch + tech.lch)) % 2 = 1
  /\ call.fill_xl > 0

(***************************************************************************)
(* The fill over both parities of the fin pitch and of the fin height.     *)
(***************************************************************************)
TechFillY ==
  { [NominalFill EXCEPT !.mos_pitch = p, !.fin_h = fh] :
      p \in {3, 4}, fh \in {1, 2} }

InitFillY == tech \in TechFillY /\ call = NoCall

NextFillY == GetFillInfo \/ Return

SpecFillY == InitFillY /\ [][NextFillY]_vars

\* the fill-eligible y range of the invocation served
FillYl == edge_delta(call.eb) + Max2(tech.imp_po_ency, tech.po_spy \div 2)

FillYh == call.h - edge_delta(call.et) - Max2(tech.imp_po_ency, tech.po_spy \div 2)

\* C26: every dummy active rectangle emitted by get_fill_info leaves room for
\* the gate-poly extension inside the fill-eligible range: its bottom edge is
\* at or above fill_yl + po_od_exty and its top edge at or below
\* fill_yh - po_od_exty, whatever the parities of fin_p and fin_h.
FillBoundsRoundedInward ==
  (FillReturned /\ call.ret.raised = "none") =>
    \A b \in FillOdBoxes :
      /\ b.yl >= FillYl + tech.po_od_exty
      /\ b.yh <= FillYh - tech.po_od_exty

\* the gate-poly arrays of a layer in the space block served: their places
\* in the drawing order, the column of their first line and their count
SpacePolyItems(lay) ==
  { k \in 1..Len(call.ret.lay_info.items) :
      /\ call.ret.lay_info.items[k].kind = "rect"
      /\ call.ret.lay_info.items[k].lay = lay }

SpacePolyCol(k) ==
  (call.ret.lay_info.items[k].box.xl - ((tech.sd_pitch - tech.lch) \div 2))
    \div tech.sd_pitch

\* the number of lines of the arrays of a layer that fall in a column
SpaceLinesIn(lay, col) ==
  Cardinality({ k \in SpacePolyItems(lay) :
                  /\ SpacePolyCol(k) <= col
                  /\ col < SpacePolyCol(k) + call.ret.lay_info.items[k].nx })

\* C27: a space block of num_cols >= 1 columns has exactly one gate-poly line
\* per column: an edge-type (PO_PODE) line in a column next to an edge with
\* active area and a dummy (PO_DUMMY) line in every other column, and no poly
\* array has a negative repetition count, for every pair of edge infos.
OnePolyLinePerColumn ==
  (SpaceReturned /\ call.ret.raised = "none") =>
    /\ \A k \in SpacePolyItems("PO_PODE") \cup SpacePolyItems("PO_DUMMY") :
         call.ret.lay_info.items[k].nx >= 0
    /\ \A col \in 0..(call.num_cols - 1) :
         LET at_edge == \/ (col = 0 /\ edge_has_od(call.left_info))
                        \/ (col = call.num_cols - 1 /\ edge_has_od(call.right_info))
         IN  /\ SpaceLinesIn("PO_PODE", col) = (IF at_edge THEN 1 ELSE 0)
             /\ SpaceLinesIn("PO_DUMMY", col) = (IF at_edge THEN 0 ELSE 1)

====
